---- MODULE Spec2Model ----
(***************************************************************************)
(* Model of codex-wrapper (src/codex-wrapper/main.go, logger.go):          *)
(*   - topologicalSort     : Kahn layering of a batch of TaskSpecs         *)
(*   - executeConcurrent   : layer-by-layer execution with cascading skips *)
(*   - run (--parallel)    : batch exit code                               *)
(*   - Logger              : buffered channel + single writer goroutine    *)
(*   - runCodexTaskWithContext : the codex process, cmd.Wait, the parser   *)
(*   - parseJSONStreamWithLog  : the event stream as a function            *)
(*   - run (single task)   : exit code and the deferred logger teardown    *)
(* Task ids are modelled as the integers 1..N (string order = integer      *)
(* order); a dependency on an id above N names no task of the batch.       *)
(***************************************************************************)
EXTENDS Integers, Sequences, FiniteSets, TLC

VARIABLES
    tasks,      \* cfg.Tasks: the parsed batch, a sequence of TaskSpec
    sortRes,    \* what topologicalSort returned: [err, layers, errIDs]
    pc,         \* position of run() / executeConcurrent()
    li,         \* executeConcurrent: index of the layer being run
    ti,         \* executeConcurrent: index of the task the launch loop is at
    ci,         \* executeConcurrent: i of the collecting loop
    executed,   \* executeConcurrent: goroutines launched for this layer
    results,    \* executeConcurrent: results, in output order
    failed,     \* executeConcurrent: failed[id], the failed results by id
    resultsCh,  \* executeConcurrent: buffered channel of TaskResult
    worker,     \* per task: state of its goroutine
    spawns,     \* per task: number of supervisor invocations started for it
    exitCode,   \* what run() returned
    cfgErr,     \* the error parseParallelConfig returned ("" when none)
    stdout,     \* what run() has printed to standard output
    panicked,   \* history: the tasks whose supervisor invocation panicked
    interrupt,  \* history: the layer during which SIGINT or SIGTERM was
                \* delivered (0: none) and the invocations it cancelled
    lpc,        \* Logger.log: position of each producer
    logged,     \* per producer: log calls made so far
    ch,         \* Logger.ch: the buffered channel of entries
    closed,     \* Logger.closed (atomic.Bool)
    doneClosed, \* Logger.done has been closed
    chClosed,   \* Logger.ch has been closed
    pendingWG,  \* Logger.pendingWG counter
    wbuf,       \* Logger.writer: entries held by the bufio.Writer
    file,       \* entries written to the log file
    fileClosed, \* Logger.file has been closed
    wpc,        \* Logger.run: position of the writer goroutine
    once,       \* Logger.closeOnce
    cpc,        \* Logger.Close: position of each caller
    closeErr,   \* Logger.Close: what each call returned
    dropped,    \* entries whose log call returned without queueing them
    fpc,        \* Logger.Flush: position of the caller
    flushReq,   \* Logger.flushReq: the buffered channel of flush requests
    flushDone,  \* the flushDone channel of the Flush call in progress is closed
    quiet,      \* history: no log call was in progress when the Flush call in
                \* progress began, and none has begun since
    logPath,    \* the log file on disk: "none", "exists" or "removed"
    spc,        \* runCodexTaskWithContext: position of the supervisor
    child,      \* the codex process: "none", "running" or "exited"
    status,     \* exit status of the codex process (-1: ended by a signal)
    stream,     \* the lines written to stdout so far
    ppos,       \* parseJSONStreamWithLog: lines scanned so far
    parsed,     \* parseJSONStreamWithLog: message, threadID, warnings so far
    parseDone,  \* the parser has returned (its result is in parseCh)
    waitDone,   \* cmd.Wait has returned (its error is in waitCh)
    ctxErr,     \* ctx.Err(): "", "deadline" or "canceled"
    firedRunning, \* history: the codex process was running when ctx was done
    termSent,   \* terminateProcess has sent SIGTERM
    sigs,       \* history: the signals sent to the codex process, in order
    stderrBuf,  \* runCodexTaskWithContext: the tailBuffer, limit and data
    stderrLog,  \* history: all the bytes written to stderrBuf, the latest
                \* input of Write and what Write returned for it
    causes,     \* history: the deadline and the signal, in order of arrival
    killTimer,  \* the timer of terminateProcess: "none", "armed", "fired"
                \* or "stopped"
    result      \* the TaskResult returned

execVars == <<li, ti, ci, executed, results, failed, resultsCh, worker, spawns,
              exitCode, cfgErr, stdout, panicked, interrupt>>
batchVars == <<tasks, sortRes, pc, li, ti, ci, executed, results, failed,
               resultsCh, worker, spawns, exitCode, cfgErr, stdout, panicked,
               interrupt>>
logVars == <<lpc, logged, ch, closed, doneClosed, chClosed, pendingWG, wbuf,
             file, fileClosed, wpc, once, cpc, closeErr, dropped, fpc,
             flushReq, flushDone, quiet, logPath>>
supVars == <<spc, child, status, stream, ppos, parsed, parseDone, waitDone,
             ctxErr, firedRunning, termSent, sigs, killTimer, causes, stderrBuf,
             stderrLog, result>>
vars == <<tasks, sortRes, pc, li, ti, ci, executed, results, failed, resultsCh,
          worker, spawns, exitCode, cfgErr, stdout, panicked, interrupt, lpc,
          logged, ch,
          closed, doneClosed, chClosed, pendingWG, wbuf, file, fileClosed, wpc,
          once, cpc, closeErr, dropped, fpc, flushReq, flushDone, quiet,
          logPath, spc, child,
          status, stream, ppos, parsed, parseDone, waitDone, ctxErr,
          firedRunning, termSent, sigs, killTimer, causes, stderrBuf,
          stderrLog, result>>

----------------------------------------------------------------------------
(* Bounds of the model *)

\* tasks per batch explored for topologicalSort
MaxTasks == 4

\* dependency entries per batch explored for topologicalSort
MaxEdges == 4

\* tasks per batch explored for a whole run of the batch mode
RunTasks == 3

\* dependency entries per batch explored for a whole run of the batch mode
RunEdges == 2

----------------------------------------------------------------------------
(* Generic helpers *)

Range(s) == {s[i] : i \in DOMAIN s}

RECURSIVE SumLen(_)
SumLen(ss) == IF ss = <<>> THEN 0 ELSE Len(Head(ss)) + SumLen(Tail(ss))

RECURSIVE Flatten(_)
Flatten(ss) == IF ss = <<>> THEN <<>> ELSE Head(ss) \o Flatten(Tail(ss))

\* ascending sequence holding the elements of a finite set of integers
RECURSIVE SortedSeq(_)
SortedSeq(S) ==
    IF S = {} THEN <<>>
    ELSE LET m == CHOOSE x \in S : \A y \in S : x <= y
         IN <<m>> \o SortedSeq(S \ {m})

Count(s, x) == Cardinality({i \in DOMAIN s : s[i] = x})

----------------------------------------------------------------------------
(* TaskSpec and the inputs explored *)

TaskSpec(id, deps) == [ID |-> id, Dependencies |-> deps]

\* non-decreasing sequences of length len over 1..s
NonDecSeqs(s, len) ==
    {q \in [1..len -> 1..s] : \A i \in 1..(len - 1) : q[i] <= q[i + 1]}

\* Dependency lists of at most e entries over the ids 1..s
DepLists(s, e) == UNION {NonDecSeqs(s, len) : len \in 0..e}

\* dependency entries held by a batch
EdgeCount(ts) == SumLen([i \in DOMAIN ts |-> ts[i].Dependencies])

----------------------------------------------------------------------------
(* topologicalSort, main.go:158-222 *)

IDs(ts) == {ts[i].ID : i \in DOMAIN ts}

\* idToTask[task.ID] = task; a later task with the same id overwrites
idToTask(ts) ==
    [id \in IDs(ts) |->
        ts[CHOOSE i \in DOMAIN ts :
              ts[i].ID = id /\ \A j \in DOMAIN ts : ts[j].ID = id => j <= i]]

\* the (dep, task) pairs in the order the second loop visits them
EdgeList(ts) ==
    Flatten([i \in DOMAIN ts |->
        [k \in DOMAIN ts[i].Dependencies |->
            [dep |-> ts[i].Dependencies[k], task |-> ts[i].ID, at |-> i]]])

\* first dependency that names no task of the batch; 0 when there is none
FirstUnknown(ts) ==
    LET el == EdgeList(ts)
        bad == {k \in DOMAIN el : el[k].dep \notin IDs(ts)}
    IN IF bad = {} THEN 0 ELSE CHOOSE k \in bad : \A j \in bad : k <= j

\* indegree[task.ID]++ for every listed dependency (duplicates count)
InitialIndegree(ts) ==
    LET el == EdgeList(ts)
    IN [id \in IDs(ts) |-> Cardinality({k \in DOMAIN el : el[k].task = id})]

\* adj[dep] = append(adj[dep], task.ID)
Adj(ts) ==
    LET el == EdgeList(ts)
        pick(d) == SelectSeq(el, LAMBDA e : e.dep = d)
    IN [d \in IDs(ts) |-> [k \in DOMAIN pick(d) |-> pick(d)[k].task]]

\* a first layer that takes every task
Ready_Always(deg) == TRUE

\* main.go:180: if indegree[task.ID] == 0
Ready(deg) == deg = 0

\* queue of the first layer: the zero in-degree tasks, in input order
InitialQueue(ts) ==
    LET deg == InitialIndegree(ts)
        ids == [i \in DOMAIN ts |-> ts[i].ID]
    IN SelectSeq(ids, LAMBDA id : Ready(deg[id]))

\* a release test that is off by one: fires while a dependency is pending
Released_OffByOne(deg) == deg <= 1

\* if indegree[neighbor] == 0 { next = append(next, neighbor) }
Released(deg) == deg = 0

\* a released task put at the front of the next layer
Enqueue_Prepend(next, neighbor) == <<neighbor>> \o next

\* next = append(next, neighbor)
Enqueue(next, neighbor) == Append(next, neighbor)

\* inner loops over current and adj[id]: decrement, collect the released
RECURSIVE ReleaseLoop(_, _, _)
ReleaseLoop(neighbors, indegree, next) ==
    IF neighbors = <<>> THEN [indegree |-> indegree, next |-> next]
    ELSE LET nb  == Head(neighbors)
             deg == indegree[nb] - 1
         IN ReleaseLoop(Tail(neighbors),
                        [indegree EXCEPT ![nb] = deg],
                        IF Released(deg) THEN Enqueue(next, nb) ELSE next)

\* a layer split into one layer per task
AppendLayer_Split(layers, layer) ==
    layers \o [i \in DOMAIN layer |-> <<layer[i]>>]

\* a layer merged into the layer before it
AppendLayer_Merged(layers, layer) ==
    IF layers = <<>> THEN <<layer>>
    ELSE [layers EXCEPT ![Len(layers)] = @ \o layer]

\* main.go:196: layers = append(layers, layer)
AppendLayer(layers, layer) == Append(layers, layer)

\* for len(queue) > 0 { ... }
RECURSIVE KahnLoop(_, _, _, _)
KahnLoop(ts, queue, indegree, layers) ==
    IF queue = <<>> THEN [layers |-> layers, indegree |-> indegree]
    ELSE LET layer == [i \in DOMAIN queue |-> idToTask(ts)[queue[i]]]
             nbs   == Flatten([i \in DOMAIN queue |-> Adj(ts)[queue[i]]])
             rel   == ReleaseLoop(nbs, indegree, <<>>)
         IN KahnLoop(ts, rel.next, rel.indegree, AppendLayer(layers, layer))

\* a completeness test that never reports the tasks left unprocessed
Incomplete_Never(processed, ts) == processed > Len(ts)

\* if processed != len(tasks) { cycle error }
Incomplete(processed, ts) == processed # Len(ts)

\* a report that names every task of the batch
Unprocessed_Any(deg) == TRUE

\* main.go:213: if deg > 0 { cycleIDs = append(cycleIDs, id) }
Unprocessed(deg) == deg > 0

\* the dependency check of the second loop
DependencyMissing(ts) == FirstUnknown(ts) # 0

topologicalSort(ts) ==
    IF DependencyMissing(ts)
    THEN LET e == EdgeList(ts)[FirstUnknown(ts)]
         IN [err |-> "dependency not found", layers |-> <<>>,
             errIDs |-> <<e.dep, e.task>>]
    ELSE LET k == KahnLoop(ts, InitialQueue(ts), InitialIndegree(ts), <<>>)
         IN IF Incomplete(SumLen(k.layers), ts)
            THEN [err |-> "cycle detected", layers |-> <<>>,
                  errIDs |-> SortedSeq({id \in IDs(ts) : Unprocessed(k.indegree[id])})]
            ELSE [err |-> "", layers |-> k.layers, errIDs |-> <<>>]

----------------------------------------------------------------------------
(* Specification SpecTopo: topologicalSort applied to every bounded batch  *)

NotSorted == [err |-> "not called", layers |-> <<>>, errIDs |-> <<>>]

\* parseParallelConfig, main.go:91-149: one more task block is appended to
\* cfg.Tasks. The block's id is new (duplicates are rejected at line 142);
\* its dependencies may name any id: an earlier or a later block, itself
\* (repeats included), or an id that no block of the batch carries.
ParseTask(maxTasks, maxEdges) ==
    /\ pc = "parse"
    /\ Len(tasks) < maxTasks
    /\ \E d \in DepLists(maxTasks + 1, maxEdges - EdgeCount(tasks)) :
         tasks' = Append(tasks, TaskSpec(Len(tasks) + 1, d))
    /\ UNCHANGED <<sortRes, pc>>
    /\ UNCHANGED execVars
    /\ UNCHANGED logVars
    /\ UNCHANGED supVars

\* nothing of executeConcurrent exists before it is called
NoInterrupt == [at |-> 0, hit |-> {}]

ExecIdle ==
    /\ li = 0 /\ ti = 0 /\ ci = 0 /\ executed = 0
    /\ results = <<>> /\ failed = <<>> /\ resultsCh = <<>>
    /\ worker = <<>> /\ spawns = <<>>
    /\ exitCode = -1
    /\ cfgErr = "" /\ stdout = <<>> /\ panicked = {}
    /\ interrupt = NoInterrupt

\* the logger takes no part in the runs of the batch mode explored here
LogIdle ==
    /\ lpc = <<>> /\ logged = <<>> /\ ch = <<>>
    /\ closed = FALSE /\ doneClosed = FALSE /\ chClosed = FALSE
    /\ pendingWG = 0 /\ wbuf = <<>> /\ file = <<>> /\ fileClosed = FALSE
    /\ wpc = "none" /\ once = "none" /\ cpc = <<>> /\ closeErr = <<>>
    /\ dropped = {}
    /\ fpc = "none" /\ flushReq = <<>> /\ flushDone = FALSE /\ quiet = FALSE
    /\ logPath = "none"

\* what the parser holds before the first line
NoParse == [message |-> <<>>, threadID |-> "", warnings |-> 0, stopped |-> FALSE]

\* the TaskResult a supervisor starts from
NoResult == [ExitCode |-> 0, Message |-> <<>>, SessionID |-> "", Error |-> "",
             Stderr |-> FALSE]

\* no codex process is supervised in the runs explored here
\* the capture limit of the stderr tail (stderrCaptureLimit, scaled down)
MaxTailLimit == 3

\* no Write yet
NoWrites == [all |-> <<>>, p |-> <<>>, n |-> -1]

\* main.go:710: stderrBuf := &tailBuffer{limit: stderrCaptureLimit}
TailIdle ==
    /\ stderrBuf = [limit |-> MaxTailLimit, data |-> <<>>]
    /\ stderrLog = NoWrites

SupIdle ==
    /\ spc = "none" /\ child = "none" /\ status = 0
    /\ stream = <<>> /\ ppos = 0 /\ parsed = NoParse /\ parseDone = FALSE
    /\ waitDone = FALSE /\ ctxErr = "" /\ firedRunning = FALSE
    /\ termSent = FALSE /\ result = NoResult
    /\ sigs = <<>> /\ killTimer = "none" /\ causes = <<>>
    /\ TailIdle

TopoInit ==
    /\ tasks = <<>>
    /\ sortRes = NotSorted
    /\ pc = "parse"
    /\ ExecIdle
    /\ LogIdle
    /\ SupIdle

TopoParse == ParseTask(MaxTasks, MaxEdges)

\* run, main.go:425: layers, err := topologicalSort(cfg.Tasks), reached
\* once parseParallelConfig returned at least one task (main.go:151)
Sort ==
    /\ pc = "parse"
    /\ Len(tasks) > 0
    /\ sortRes' = topologicalSort(tasks)
    /\ pc' = "sorted"
    /\ UNCHANGED tasks
    /\ UNCHANGED execVars
    /\ UNCHANGED logVars
    /\ UNCHANGED supVars

TopoNext == TopoParse \/ Sort

SpecTopo == TopoInit /\ [][TopoNext]_vars

----------------------------------------------------------------------------
(* TaskResult and what a supervisor invocation returns *)

TaskResult(id, code, msg, sid, err, errIDs) ==
    [TaskID |-> id, ExitCode |-> code, Message |-> msg, SessionID |-> sid,
     Error |-> err, ErrIDs |-> errIDs]

\* exit statuses of the child that the batch runs explore
ChildExitCodes == {2}

\* runCodexTaskWithContext, main.go:842-888: the results of an invocation
\* whose child was started: success, the child's own non-zero status, the
\* deadline. The task id is always the spec's (main.go:648).
SupervisorResults(id) ==
    {TaskResult(id, 0, "agent message", "thread", "", <<>>)}
        \cup {TaskResult(id, c, "", "", "codex exited with status", <<>>) :
                c \in ChildExitCodes}
        \cup {TaskResult(id, 124, "", "", "codex execution timeout", <<>>)}

\* a recovered panic reported with exit code 0
PanicResult_NoCode(id) == TaskResult(id, 0, "", "", "panic", <<>>)

\* main.go:266: the result a recovered panic is turned into
PanicResult(id) == TaskResult(id, 1, "", "", "panic", <<>>)

\* a skip result that forgets the exit code
SkipResult_NoCode(id, blocked) ==
    TaskResult(id, 0, "", "", "skipped due to failed dependencies", blocked)

\* main.go:254: the result synthesised for a skipped task
SkipResult(id, blocked) ==
    TaskResult(id, 1, "", "", "skipped due to failed dependencies", blocked)

----------------------------------------------------------------------------
(* executeConcurrent and shouldSkipTask, main.go:238-304 *)

MapPut(m, k, v) == [x \in (DOMAIN m) \cup {k} |-> IF x = k THEN v ELSE m[x]]

\* a skip test that looks at the first dependency only
Blocked_FirstOnly(task, failedMap) ==
    SelectSeq(SubSeq(task.Dependencies, 1, 1), LAMBDA dep : dep \in DOMAIN failedMap)

\* a skip test that blocks on every failed task of the batch
Blocked_AnyFailure(task, failedMap) == SortedSeq(DOMAIN failedMap)

\* main.go:292-297: the dependencies found in failed, in listed order
Blocked(task, failedMap) ==
    SelectSeq(task.Dependencies, LAMBDA dep : dep \in DOMAIN failedMap)

shouldSkipTask(task, failedMap) ==
    IF Len(task.Dependencies) = 0 THEN [skip |-> FALSE, blocked |-> <<>>]
    ELSE IF Len(Blocked(task, failedMap)) = 0
         THEN [skip |-> FALSE, blocked |-> <<>>]
         ELSE [skip |-> TRUE, blocked |-> Blocked(task, failedMap)]

\* a skip that is not registered as a failure
RecordSkip_Forget(failedMap, res) == failedMap

\* main.go:256: failed[task.ID] = res
RecordSkip(failedMap, res) == MapPut(failedMap, res.TaskID, res)

\* main.go:278: if res.ExitCode != 0 || res.Error != ""
IsFailure(res) == res.ExitCode # 0 \/ res.Error # ""

\* a capacity of one result per layer
TotalTasks_PerLayer(layers) == Len(layers)

\* main.go:239-242
TotalTasks(layers) == SumLen(layers)

\* goroutines of the WaitGroup that have not called Done
WgCount == Cardinality({id \in DOMAIN worker : worker[id] \in {"queued", "running"}})

\* the errors of parseParallelConfig, main.go:83,99,133,136,139,148
ConfigErrors ==
    {"parallel config is empty", "task block missing ---CONTENT--- separator",
     "task missing id field", "task missing content", "duplicate task id",
     "no tasks found"}

\* run, main.go:418-422: parseParallelConfig returns an error, at the block
\* that follows the ones parsed so far or at the end of an input without a
\* block; the error goes to standard error and run returns 1
ParseFails(err) ==
    /\ pc = "parse"
    /\ err \in {"parallel config is empty", "no tasks found"} => Len(tasks) = 0
    /\ err = "duplicate task id" => Len(tasks) > 0
    /\ cfgErr' = err
    /\ exitCode' = 1
    /\ pc' = "exited"
    /\ UNCHANGED <<tasks, sortRes, li, ti, ci, executed, results, failed,
                   resultsCh, worker, spawns, stdout, panicked>>
    /\ UNCHANGED logVars
    /\ UNCHANGED supVars
    /\ UNCHANGED interrupt

\* a run that goes on after a failed sort
SortError_Ignored(res) == FALSE

\* run, main.go:426: if err != nil
SortError(res) == res.err # ""

\* run, main.go:426-429: topologicalSort failed
SortFailed ==
    /\ pc = "sorted"
    /\ SortError(sortRes)
    /\ exitCode' = 1
    /\ pc' = "exited"
    /\ UNCHANGED <<tasks, sortRes, li, ti, ci, executed, results, failed,
                   resultsCh, worker, spawns>>
    /\ UNCHANGED <<cfgErr, stdout, panicked>>
    /\ UNCHANGED logVars
    /\ UNCHANGED supVars
    /\ UNCHANGED interrupt

\* main.go:239-248: entry of executeConcurrent
ExecuteBegin ==
    /\ pc = "sorted"
    /\ ~SortError(sortRes)
    /\ li' = 1 /\ ti' = 1 /\ ci' = 0 /\ executed' = 0
    /\ results' = <<>> /\ failed' = <<>> /\ resultsCh' = <<>>
    /\ worker' = [id \in IDs(tasks) |-> "none"]
    /\ spawns' = [id \in IDs(tasks) |-> 0]
    /\ pc' = IF Len(sortRes.layers) = 0 THEN "report" ELSE "launch"
    /\ UNCHANGED <<tasks, sortRes, exitCode>>
    /\ UNCHANGED <<cfgErr, stdout, panicked>>
    /\ UNCHANGED logVars
    /\ UNCHANGED supVars
    /\ UNCHANGED interrupt

\* main.go:252-271: one iteration of the loop over the layer's tasks
Launch ==
    /\ pc = "launch"
    /\ LET layer == sortRes.layers[li]
           task  == layer[ti]
           sk    == shouldSkipTask(task, failed)
       IN /\ IF sk.skip
             THEN /\ results' = Append(results, SkipResult(task.ID, sk.blocked))
                  /\ failed' = RecordSkip(failed, SkipResult(task.ID, sk.blocked))
                  /\ UNCHANGED <<executed, worker>>
             ELSE /\ executed' = executed + 1
                  /\ worker' = [worker EXCEPT ![task.ID] = "queued"]
                  /\ UNCHANGED <<results, failed>>
          /\ IF ti < Len(layer)
             THEN ti' = ti + 1 /\ pc' = "launch"
             ELSE ti' = ti /\ pc' = "wait"
    /\ UNCHANGED <<tasks, sortRes, li, ci, resultsCh, spawns, exitCode>>
    /\ UNCHANGED <<cfgErr, stdout, panicked>>
    /\ UNCHANGED logVars
    /\ UNCHANGED supVars
    /\ UNCHANGED interrupt

\* a goroutine that waits until no other invocation is in progress
WorkerStart_OneAtATime(id) ==
    /\ worker[id] = "queued"
    /\ \A x \in DOMAIN worker : worker[x] # "running"
    /\ worker' = [worker EXCEPT ![id] = "running"]
    /\ spawns' = [spawns EXCEPT ![id] = @ + 1]
    /\ UNCHANGED <<tasks, sortRes, pc, li, ti, ci, executed, results, failed,
                   resultsCh, exitCode>>
    /\ UNCHANGED <<cfgErr, stdout, panicked>>
    /\ UNCHANGED logVars
    /\ UNCHANGED supVars
    /\ UNCHANGED interrupt

\* main.go:262-269: the goroutine calls runCodexTaskFn, which starts the child
WorkerStart(id) ==
    /\ worker[id] = "queued"
    /\ worker' = [worker EXCEPT ![id] = "running"]
    /\ spawns' = [spawns EXCEPT ![id] = @ + 1]
    /\ UNCHANGED <<tasks, sortRes, pc, li, ti, ci, executed, results, failed,
                   resultsCh, exitCode>>
    /\ UNCHANGED <<cfgErr, stdout, panicked>>
    /\ UNCHANGED logVars
    /\ UNCHANGED supVars
    /\ UNCHANGED interrupt

\* main.go:263,269: the invocation returns, its result is sent, wg.Done()
WorkerReturn(id) ==
    /\ worker[id] = "running"
    /\ Len(resultsCh) < TotalTasks(sortRes.layers)
    /\ \E res \in SupervisorResults(id) : resultsCh' = Append(resultsCh, res)
    /\ worker' = [worker EXCEPT ![id] = "done"]
    /\ UNCHANGED <<tasks, sortRes, pc, li, ti, ci, executed, results, failed,
                   spawns, exitCode>>
    /\ UNCHANGED <<cfgErr, stdout, panicked>>
    /\ UNCHANGED logVars
    /\ UNCHANGED supVars
    /\ UNCHANGED interrupt

\* a panic that ends the goroutine without a result
WorkerPanic_NoResult(id) ==
    /\ worker[id] = "running"
    /\ worker' = [worker EXCEPT ![id] = "done"]
    /\ panicked' = panicked \cup {id}
    /\ UNCHANGED <<tasks, sortRes, pc, li, ti, ci, executed, results, failed,
                   resultsCh, spawns, exitCode>>
    /\ UNCHANGED <<cfgErr, stdout>>
    /\ UNCHANGED logVars
    /\ UNCHANGED supVars
    /\ UNCHANGED interrupt

\* main.go:263-268: the invocation panics, recover() sends the panic result
WorkerPanic(id) ==
    /\ worker[id] = "running"
    /\ Len(resultsCh) < TotalTasks(sortRes.layers)
    /\ resultsCh' = Append(resultsCh, PanicResult(id))
    /\ worker' = [worker EXCEPT ![id] = "done"]
    /\ panicked' = panicked \cup {id}
    /\ UNCHANGED <<tasks, sortRes, pc, li, ti, ci, executed, results, failed,
                   spawns, exitCode>>
    /\ UNCHANGED <<cfgErr, stdout>>
    /\ UNCHANGED logVars
    /\ UNCHANGED supVars
    /\ UNCHANGED interrupt

\* a collecting loop that stops one result short
Collecting_OneShort(i, n) == i < n - 1

\* main.go:275: i < executed
Collecting(i, n) == i < n

\* main.go:273: wg.Wait() returns
WaitLayer ==
    /\ pc = "wait"
    /\ WgCount = 0
    /\ pc' = "collect"
    /\ ci' = 0
    /\ UNCHANGED <<tasks, sortRes, li, ti, executed, results, failed,
                   resultsCh, worker, spawns, exitCode>>
    /\ UNCHANGED <<cfgErr, stdout, panicked>>
    /\ UNCHANGED logVars
    /\ UNCHANGED supVars
    /\ UNCHANGED interrupt

\* main.go:275-281: one iteration of the collecting loop
Collect ==
    /\ pc = "collect"
    /\ Collecting(ci, executed)
    /\ Len(resultsCh) > 0
    /\ LET res == Head(resultsCh)
       IN /\ resultsCh' = Tail(resultsCh)
          /\ results' = Append(results, res)
          /\ failed' = IF IsFailure(res) THEN MapPut(failed, res.TaskID, res)
                       ELSE failed
    /\ ci' = ci + 1
    /\ UNCHANGED <<tasks, sortRes, pc, li, ti, executed, worker, spawns,
                   exitCode>>
    /\ UNCHANGED <<cfgErr, stdout, panicked>>
    /\ UNCHANGED logVars
    /\ UNCHANGED supVars
    /\ UNCHANGED interrupt

\* main.go:248,275,284: the collecting loop ends; next layer, or return
NextLayer ==
    /\ pc = "collect"
    /\ ~Collecting(ci, executed)
    /\ IF li < Len(sortRes.layers)
       THEN li' = li + 1 /\ ti' = 1 /\ executed' = 0 /\ pc' = "launch"
       ELSE li' = li /\ ti' = ti /\ executed' = executed /\ pc' = "report"
    /\ UNCHANGED <<tasks, sortRes, ci, results, failed, resultsCh, worker,
                   spawns, exitCode>>
    /\ UNCHANGED <<cfgErr, stdout, panicked>>
    /\ UNCHANGED logVars
    /\ UNCHANGED supVars
    /\ UNCHANGED interrupt

\* an exit code loop that keeps the first non-zero code
ExitCodeStep_KeepFirst(code, res) ==
    IF code = 0 /\ res.ExitCode # 0 THEN res.ExitCode ELSE code

\* main.go:436-438: if res.ExitCode != 0 { exitCode = res.ExitCode }
ExitCodeStep(code, res) == IF res.ExitCode # 0 THEN res.ExitCode ELSE code

\* main.go:434-439
RECURSIVE ExitCodeLoop(_, _)
ExitCodeLoop(code, rs) ==
    IF rs = <<>> THEN code
    ELSE ExitCodeLoop(ExitCodeStep(code, Head(rs)), Tail(rs))

\* run, main.go:431-441: the report of the results is printed to standard
\* output, the exit code computed
Report ==
    /\ pc = "report"
    /\ stdout' = Append(stdout, results)
    /\ exitCode' = ExitCodeLoop(0, results)
    /\ pc' = "exited"
    /\ UNCHANGED <<tasks, sortRes, li, ti, ci, executed, results, failed,
                   resultsCh, worker, spawns>>
    /\ UNCHANGED <<cfgErr, panicked>>
    /\ UNCHANGED logVars
    /\ UNCHANGED supVars
    /\ UNCHANGED interrupt

----------------------------------------------------------------------------
(* Specification Spec: a run of the batch mode, run() with --parallel      *)
Init == TopoInit

RunParse == ParseTask(RunTasks, RunEdges)

Next ==
    \/ RunParse
    \/ \E err \in ConfigErrors : ParseFails(err)
    \/ Sort
    \/ SortFailed
    \/ ExecuteBegin
    \/ Launch
    \/ \E id \in DOMAIN worker : WorkerStart(id)
    \/ \E id \in DOMAIN worker : WorkerReturn(id)
    \/ \E id \in DOMAIN worker : WorkerPanic(id)
    \/ WaitLayer
    \/ Collect
    \/ NextLayer
    \/ Report

Spec == Init /\ [][Next]_vars

----------------------------------------------------------------------------
(* The dependency graph of a batch, defined without reference to the sort  *)

DepsOf(ts, id) == Range(idToTask(ts)[id].Dependencies)

AllDepsKnown(ts) == \A id \in IDs(ts) : DepsOf(ts, id) \subseteq IDs(ts)

\* ids reachable from id over at most k dependency edges (at least one)
RECURSIVE ReachWithin(_, _, _)
ReachWithin(ts, id, k) ==
    IF k = 0 THEN {}
    ELSE LET direct == DepsOf(ts, id) \cap IDs(ts)
         IN direct \cup UNION {ReachWithin(ts, d, k - 1) : d \in direct}

HasCycle(ts) == \E id \in IDs(ts) : id \in ReachWithin(ts, id, Len(ts))

InputIndex(ts, id) == CHOOSE i \in DOMAIN ts : ts[i].ID = id

\* the places <<layer, position>> at which id occurs in the layers
PlacesOf(layers, id) ==
    {<<l, k>> \in (DOMAIN layers) \X (1..Len(tasks)) :
        k \in DOMAIN layers[l] /\ layers[l][k].ID = id}

LayerOf(layers, id) ==
    CHOOSE l \in DOMAIN layers : \E k \in DOMAIN layers[l] : layers[l][k].ID = id

Sorted == pc = "sorted"

----------------------------------------------------------------------------
(* Claims about topologicalSort, checked under SpecTopo *)

\* C5: for a batch with unique ids, all dependencies known and no cycle,
\* topologicalSort returns layers holding every task exactly once, each task
\* in a layer strictly after the layer of each of its dependencies, also when
\* a dependency is listed twice.
C5_LayersRespectDependencies ==
    (Sorted /\ AllDepsKnown(tasks) /\ ~HasCycle(tasks)) =>
        /\ sortRes.err = ""
        /\ SumLen(sortRes.layers) = Len(tasks)
        /\ \A i \in DOMAIN tasks :
            /\ Cardinality(PlacesOf(sortRes.layers, tasks[i].ID)) = 1
            /\ sortRes.layers[LayerOf(sortRes.layers, tasks[i].ID)]
                   [(CHOOSE p \in PlacesOf(sortRes.layers, tasks[i].ID) : TRUE)[2]]
                 = tasks[i]
            /\ \A d \in Range(tasks[i].Dependencies) :
                 LayerOf(sortRes.layers, d) < LayerOf(sortRes.layers, tasks[i].ID)

\* a sorted batch of three layers in which a task lists one dependency twice
C5_Witness ==
    /\ Sorted /\ sortRes.err = ""
    /\ Len(sortRes.layers) = 3
    /\ \E i \in DOMAIN tasks : \E d \in IDs(tasks) :
         Count(tasks[i].Dependencies, d) = 2

\* C6: topologicalSort returns an error exactly when a dependency names an
\* id that is not in the batch or the graph has a cycle (a self-dependency
\* included); with the error no layers are returned.
C6_ErrorIffUnknownOrCycle ==
    Sorted =>
        /\ (sortRes.err # "") <=> (~AllDepsKnown(tasks) \/ HasCycle(tasks))
        /\ (sortRes.err # "") => sortRes.layers = <<>>
        /\ sortRes.err \in {"", "dependency not found", "cycle detected"}

\* a cycle error for a batch in which a task depends on itself while another
\* task was layered before the cycle was found
C6_Witness ==
    /\ Sorted /\ sortRes.err = "cycle detected"
    /\ \E i \in DOMAIN tasks : tasks[i].ID \in Range(tasks[i].Dependencies)
    /\ \E i \in DOMAIN tasks : tasks[i].Dependencies = <<>>

InInputOrder(ts, layer) ==
    \A i, j \in DOMAIN layer :
        i < j => InputIndex(ts, layer[i].ID) < InputIndex(ts, layer[j].ID)

\* C7 as stated: in every layer, the first and every later one, tasks are in
\* the relative order of the input list.
C7_EveryLayerInInputOrder ==
    Sorted => \A l \in DOMAIN sortRes.layers : InInputOrder(tasks, sortRes.layers[l])

\* position, in the layer before layer l, of the last dependency of id there
ReleasedAt(ts, layers, l, id) ==
    LET prev == layers[l - 1]
        at   == {k \in DOMAIN prev : prev[k].ID \in DepsOf(ts, id)}
    IN CHOOSE k \in at : \A j \in at : j <= k

\* C7 amended: the first layer is in input order; a later layer lists its
\* tasks in the order in which they were released, that is by the position
\* in the previous layer of their last dependency there, and tasks released
\* by the same dependency are in input order.
C7_LayersInReleaseOrder ==
    Sorted =>
        \A l \in DOMAIN sortRes.layers :
            IF l = 1 THEN InInputOrder(tasks, sortRes.layers[l])
            ELSE \A i, j \in DOMAIN sortRes.layers[l] :
                   i < j =>
                     LET a  == sortRes.layers[l][i].ID
                         b  == sortRes.layers[l][j].ID
                         ra == ReleasedAt(tasks, sortRes.layers, l, a)
                         rb == ReleasedAt(tasks, sortRes.layers, l, b)
                     IN \/ ra < rb
                        \/ ra = rb /\ InputIndex(tasks, a) < InputIndex(tasks, b)

\* a later layer of two tasks that is not in input order, and one that is
C7_Witness ==
    /\ Sorted /\ sortRes.err = ""
    /\ \E l \in DOMAIN sortRes.layers :
         /\ l > 1
         /\ Len(sortRes.layers[l]) = 2
         /\ ~InInputOrder(tasks, sortRes.layers[l])

----------------------------------------------------------------------------
(* Claims about executeConcurrent and run, checked under Spec *)

\* executeConcurrent has returned its results
Returned == pc \in {"report", "exited"} /\ sortRes.err = ""

\* run() has returned after running the batch
Exited == pc = "exited" /\ sortRes.err = ""

ResultsOf(id) == {k \in DOMAIN results : results[k].TaskID = id}

ResultOf(id) == results[CHOOSE k \in ResultsOf(id) : TRUE]

Succeeded(res) == res.ExitCode = 0 /\ res.Error = ""

IsSkip(res) == res.Error = "skipped due to failed dependencies"

\* a result of task id, published or collected, that is a failure
FailedResultOf(id) ==
    \E r \in Range(results) \cup Range(resultsCh) :
        r.TaskID = id /\ (r.ExitCode # 0 \/ r.Error # "")

\* C1: executeConcurrent returns exactly N results for a plan of N tasks and
\* every task id appears in them exactly once, whatever mix of successes,
\* failures, panics and skips occurs.
C1_OneResultPerTask ==
    Returned =>
        /\ Len(results) = Len(tasks)
        /\ \A i \in DOMAIN tasks : Cardinality(ResultsOf(tasks[i].ID)) = 1

\* three results: a success, a panic and a skip
C1_Witness ==
    /\ Returned
    /\ Len(results) = 3
    /\ \E r \in Range(results) : Succeeded(r)
    /\ \E r \in Range(results) : r.Error = "panic"
    /\ \E r \in Range(results) : IsSkip(r)

\* the supervisor invocation of id has been started
Started(id) == worker[id] \in {"running", "done"}

\* C2: whenever the invocation of a task B has been started, the invocation
\* of every dependency of B has returned, and every task of an earlier layer
\* has either returned or was never launched: no task is launched before the
\* launched tasks of the earlier layers have completed.
C2_StartsAfterDependenciesReturned ==
    \A b \in DOMAIN worker :
        Started(b) =>
            /\ \A a \in DepsOf(tasks, b) : worker[a] = "done"
            /\ \A x \in DOMAIN worker :
                 worker[x] \in {"queued", "running"} =>
                     LayerOf(sortRes.layers, x) >= LayerOf(sortRes.layers, b)

\* a task of the third layer is running
C2_Witness ==
    \E b \in DOMAIN worker :
        /\ worker[b] = "running"
        /\ LayerOf(sortRes.layers, b) = 3

\* C3: if a direct dependency of B failed (non-zero exit code or non-empty
\* error), the child of B is never spawned and the result of B has a
\* non-zero exit code.
C3_FailedDependencyBlocksTask ==
    \A b \in DOMAIN worker :
        (\E a \in DepsOf(tasks, b) : FailedResultOf(a)) =>
            /\ spawns[b] = 0
            /\ worker[b] = "none"
            /\ \A k \in ResultsOf(b) : results[k].ExitCode # 0
            /\ Returned => ResultsOf(b) # {}

\* B lists a dependency that succeeded before one that failed, and was skipped
C3_Witness ==
    /\ Returned
    /\ \E b \in DOMAIN worker :
         /\ Len(tasks[b].Dependencies) = 2
         /\ Succeeded(ResultOf(tasks[b].Dependencies[1]))
         /\ ~Succeeded(ResultOf(tasks[b].Dependencies[2]))
         /\ IsSkip(ResultOf(b))
         /\ spawns[b] = 0

\* C4: a task is spawned at most once, and when executeConcurrent returns
\* every task whose direct dependencies all succeeded has been spawned
\* exactly once, whatever failed elsewhere in the batch.
C4_IndependentTasksRun ==
    /\ \A b \in DOMAIN worker : spawns[b] <= 1
    /\ Returned =>
         \A b \in DOMAIN worker :
             (\A a \in DepsOf(tasks, b) : Succeeded(ResultOf(a))) => spawns[b] = 1

\* B ran after its dependency succeeded although a task of the same layer as
\* the dependency panicked
C4_Witness ==
    /\ Returned
    /\ \E b \in DOMAIN worker :
         /\ DepsOf(tasks, b) # {}
         /\ \A a \in DepsOf(tasks, b) : Succeeded(ResultOf(a))
         /\ spawns[b] = 1
         /\ \E x \in DOMAIN worker :
              /\ LayerOf(sortRes.layers, x) < LayerOf(sortRes.layers, b)
              /\ ResultOf(x).Error = "panic"

\* task a ran and exited non-zero, and every other task was skipped or
\* succeeded
OnlyFailure(a) ==
    /\ ResultOf(a).Error = "codex exited with status"
    /\ \A x \in IDs(tasks) \ {a} : IsSkip(ResultOf(x)) \/ Succeeded(ResultOf(x))

\* C8 as stated: when one task runs and exits with code c, its dependents
\* are skipped and every other task succeeds, the process exit code is c.
C8_ExitCodeOfTheFailedTask ==
    Exited =>
        \A a \in IDs(tasks) : OnlyFailure(a) => exitCode = ResultOf(a).ExitCode

\* C8 amended: in that case there is one result per task, every direct
\* dependent of the failed task is skipped with an error naming it, and the
\* process exit code is 1, the code of the skip results that follow the
\* failed task's result in the output (c only when no task was skipped).
C8_ExitCodeOfTheSkip ==
    Exited =>
        \A a \in IDs(tasks) :
            OnlyFailure(a) =>
                /\ Len(results) = Len(tasks)
                /\ \A b \in IDs(tasks) :
                     a \in DepsOf(tasks, b) =>
                        /\ IsSkip(ResultOf(b))
                        /\ a \in Range(ResultOf(b).ErrIDs)
                /\ exitCode = IF \E x \in IDs(tasks) : IsSkip(ResultOf(x))
                              THEN 1
                              ELSE ResultOf(a).ExitCode

\* the batch A, B depending on A, D (ids 1, 2, 3): A exited 2, B was skipped
\* naming A, D succeeded, and run() returned 1
C8_Witness ==
    /\ Exited
    /\ tasks = <<TaskSpec(1, <<>>), TaskSpec(2, <<1>>), TaskSpec(3, <<>>)>>
    /\ Len(results) = 3
    /\ ResultOf(1).ExitCode = 2
    /\ IsSkip(ResultOf(2)) /\ ResultOf(2).ErrIDs = <<1>>
    /\ ResultOf(3).ExitCode = 0
    /\ exitCode = 1

NonZeroAt == {k \in DOMAIN results : results[k].ExitCode # 0}

\* C9: the batch exit code is 0 exactly when every result has exit code 0;
\* otherwise it is the exit code of the last result, in output order, whose
\* exit code is not 0.
C9_LastNonZeroExitCode ==
    Exited =>
        /\ (exitCode = 0) <=> (\A k \in DOMAIN results : results[k].ExitCode = 0)
        /\ NonZeroAt # {} =>
             exitCode = results[CHOOSE k \in NonZeroAt : \A j \in NonZeroAt : j <= k].ExitCode

\* two different non-zero codes in the output, the last of them followed by
\* a result with code 0, and the exit code is that of the later one
C9_Witness ==
    /\ Exited
    /\ \E j, k \in NonZeroAt :
         /\ j < k
         /\ results[j].ExitCode # results[k].ExitCode
         /\ \A m \in NonZeroAt : m <= k
         /\ k < Len(results)
         /\ exitCode = results[k].ExitCode


(***************************************************************************)
(* Logger (logger.go): producers call log, one writer goroutine runs run,  *)
(* Close and Flush are called from other goroutines.                       *)
(***************************************************************************)
\* the capacity of Logger.ch, make(chan logEntry, 1000) in the program
LogQueueCap == 2
\* the capacity of Logger.flushReq
FlushReqCap == 1
\* log calls made by all the producers together
MaxLogs == 3
Producers == {1, 2}
Closers == {1, 2}

RECURSIVE CallsOf(_, _)
CallsOf(count, S) ==
    IF S = {} THEN 0
    ELSE LET p == CHOOSE q \in S : TRUE
         IN  count[p] + CallsOf(count, S \ {p})

\* the entry of producer p's k-th log call
logEntry(p, k) == <<p, k>>

NewLogger ==
    /\ lpc = [p \in Producers |-> "idle"]
    /\ logged = [p \in Producers |-> 0]
    /\ ch = <<>>
    /\ closed = FALSE /\ doneClosed = FALSE /\ chClosed = FALSE
    /\ pendingWG = 0 /\ wbuf = <<>> /\ file = <<>> /\ fileClosed = FALSE
    /\ wpc = "run" /\ once = "new"
    /\ cpc = [c \in Closers |-> "idle"]
    /\ closeErr = [c \in Closers |-> ""]
    /\ dropped = {}
    /\ fpc = "idle" /\ flushReq = <<>> /\ flushDone = FALSE /\ quiet = FALSE
    /\ logPath = "exists"

LogInit ==
    /\ tasks = <<>>
    /\ sortRes = NotSorted
    /\ pc = "logger"
    /\ ExecIdle
    /\ NewLogger
    /\ SupIdle

\* log: the closed check; a closed logger returns at once
LogEnter(p) ==
    /\ lpc[p] = "idle"
    /\ CallsOf(logged, Producers) < MaxLogs
    /\ logged' = [logged EXCEPT ![p] = @ + 1]
    /\ IF closed
       THEN /\ dropped' = dropped \cup {logEntry(p, logged[p] + 1)}
            /\ lpc' = lpc
       ELSE /\ lpc' = [lpc EXCEPT ![p] = "entered"]
            /\ dropped' = dropped
    /\ UNCHANGED <<ch, closed, doneClosed, chClosed, pendingWG, wbuf, file,
                   fileClosed, wpc, once, cpc, closeErr, fpc, flushReq, flushDone>>
    /\ quiet' = FALSE
    /\ UNCHANGED logPath
    /\ UNCHANGED batchVars
    /\ UNCHANGED supVars

\* log: pendingWG.Add(1)
LogAdd(p) ==
    /\ lpc[p] = "entered"
    /\ pendingWG' = pendingWG + 1
    /\ lpc' = [lpc EXCEPT ![p] = "select"]
    /\ UNCHANGED <<logged, ch, closed, doneClosed, chClosed, wbuf, file,
                   fileClosed, wpc, once, cpc, closeErr, dropped, fpc,
                   flushReq, flushDone>>
    /\ UNCHANGED quiet
    /\ UNCHANGED logPath
    /\ UNCHANGED batchVars
    /\ UNCHANGED supVars

\* a send on a buffered channel can proceed when the buffer has room
CanSend(queue, cap) == Len(queue) < cap

\* log: the select's send case
LogSend(p) ==
    /\ lpc[p] = "select"
    /\ ~chClosed
    /\ CanSend(ch, LogQueueCap)
    /\ ch' = Append(ch, logEntry(p, logged[p]))
    /\ lpc' = [lpc EXCEPT ![p] = "idle"]
    /\ UNCHANGED <<logged, closed, doneClosed, chClosed, pendingWG, wbuf,
                   file, fileClosed, wpc, once, cpc, closeErr, dropped, fpc,
                   flushReq, flushDone>>
    /\ UNCHANGED quiet
    /\ UNCHANGED logPath
    /\ UNCHANGED batchVars
    /\ UNCHANGED supVars

\* log: the select's send case on a closed channel panics
LogSendClosed(p) ==
    /\ lpc[p] = "select"
    /\ chClosed
    /\ lpc' = [lpc EXCEPT ![p] = "panicked"]
    /\ UNCHANGED <<logged, ch, closed, doneClosed, chClosed, pendingWG, wbuf,
                   file, fileClosed, wpc, once, cpc, closeErr, dropped, fpc,
                   flushReq, flushDone>>
    /\ UNCHANGED quiet
    /\ UNCHANGED logPath
    /\ UNCHANGED batchVars
    /\ UNCHANGED supVars

\* log: the select's done case, the entry is dropped
LogDrop(p) ==
    /\ lpc[p] = "select"
    /\ doneClosed
    /\ pendingWG' = pendingWG - 1
    /\ dropped' = dropped \cup {logEntry(p, logged[p])}
    /\ lpc' = [lpc EXCEPT ![p] = "idle"]
    /\ UNCHANGED <<logged, ch, closed, doneClosed, chClosed, wbuf, file,
                   fileClosed, wpc, once, cpc, closeErr, fpc, flushReq, flushDone>>
    /\ UNCHANGED quiet
    /\ UNCHANGED logPath
    /\ UNCHANGED batchVars
    /\ UNCHANGED supVars

\* bufio.Writer.Flush: the buffered entries go to the file, unless the file
\* is closed, and then the write fails and the buffer keeps them
FlushedFile_Prepend == IF fileClosed THEN file ELSE wbuf \o file

FlushedFile == IF fileClosed THEN file ELSE file \o wbuf

FlushedBuf == IF fileClosed THEN wbuf ELSE <<>>

Drained_Always(queue) == TRUE

\* a receive from a closed channel reports it closed only once the buffered
\* entries have been received
Drained(queue) == queue = <<>>

\* run: an entry is received, formatted into the writer, pendingWG.Done
WriterReceive ==
    /\ wpc = "run"
    /\ ch # <<>>
    /\ wbuf' = Append(wbuf, Head(ch))
    /\ ch' = Tail(ch)
    /\ pendingWG' = pendingWG - 1
    /\ UNCHANGED <<lpc, logged, closed, doneClosed, chClosed, file,
                   fileClosed, wpc, once, cpc, closeErr, dropped, fpc,
                   flushReq, flushDone>>
    /\ UNCHANGED quiet
    /\ UNCHANGED logPath
    /\ UNCHANGED batchVars
    /\ UNCHANGED supVars

\* run: the channel is closed and drained, final flush, the worker ends
WriterFinal ==
    /\ wpc = "run"
    /\ Drained(ch)
    /\ chClosed
    /\ file' = FlushedFile
    /\ wbuf' = FlushedBuf
    /\ wpc' = "exited"
    /\ UNCHANGED <<lpc, logged, ch, closed, doneClosed, chClosed, pendingWG,
                   fileClosed, once, cpc, closeErr, dropped, fpc, flushReq, flushDone>>
    /\ UNCHANGED quiet
    /\ UNCHANGED logPath
    /\ UNCHANGED batchVars
    /\ UNCHANGED supVars

\* run: the ticker fires (a flush of an empty buffer changes nothing)
WriterTick ==
    /\ wpc = "run"
    /\ wbuf # <<>>
    /\ ~fileClosed
    /\ file' = FlushedFile
    /\ wbuf' = FlushedBuf
    /\ UNCHANGED <<lpc, logged, ch, closed, doneClosed, chClosed, pendingWG,
                   fileClosed, wpc, once, cpc, closeErr, dropped, fpc,
                   flushReq, flushDone>>
    /\ UNCHANGED quiet
    /\ UNCHANGED logPath
    /\ UNCHANGED batchVars
    /\ UNCHANGED supVars

\* run: an explicit flush request, flush, sync, close(flushDone); closing
\* the channel of a Flush call that has returned has no effect
WriterFlushReq ==
    /\ wpc = "run"
    /\ flushReq # <<>>
    /\ file' = FlushedFile
    /\ wbuf' = FlushedBuf
    /\ flushDone' = (flushDone \/ Head(flushReq) = "waited")
    /\ flushReq' = Tail(flushReq)
    /\ UNCHANGED <<lpc, logged, ch, closed, doneClosed, chClosed, pendingWG,
                   fileClosed, wpc, once, cpc, closeErr, dropped, fpc>>
    /\ UNCHANGED quiet
    /\ UNCHANGED logPath
    /\ UNCHANGED batchVars
    /\ UNCHANGED supVars

DoRuns_Always(o) == TRUE

\* sync.Once.Do runs the function only for the first call
DoRuns(o) == o = "new"

\* Close: closeOnce.Do runs the function for the first caller only; a caller
\* arriving while it runs waits for it
CloseCall(c) ==
    /\ cpc[c] = "idle"
    /\ once' = IF DoRuns(once) THEN "running" ELSE once
    /\ cpc' = [cpc EXCEPT ![c] = CASE DoRuns(once) -> "store"
                                    [] once = "running" -> "blocked"
                                    [] OTHER -> "returned"]
    /\ UNCHANGED <<lpc, logged, ch, closed, doneClosed, chClosed, pendingWG,
                   wbuf, file, fileClosed, wpc, closeErr, dropped, fpc,
                   flushReq, flushDone>>
    /\ UNCHANGED quiet
    /\ UNCHANGED logPath
    /\ UNCHANGED batchVars
    /\ UNCHANGED supVars

\* Close: closed.Store(true)
CloseStore(c) ==
    /\ cpc[c] = "store"
    /\ closed' = TRUE
    /\ cpc' = [cpc EXCEPT ![c] = "closeDone"]
    /\ UNCHANGED <<lpc, logged, ch, doneClosed, chClosed, pendingWG, wbuf,
                   file, fileClosed, wpc, once, closeErr, dropped, fpc,
                   flushReq, flushDone>>
    /\ UNCHANGED quiet
    /\ UNCHANGED logPath
    /\ UNCHANGED batchVars
    /\ UNCHANGED supVars

\* Close: close(l.done); closing a closed channel panics
CloseDone(c) ==
    /\ cpc[c] = "closeDone"
    /\ doneClosed' = TRUE
    /\ cpc' = [cpc EXCEPT ![c] = IF doneClosed THEN "panicked" ELSE "closeCh"]
    /\ UNCHANGED <<lpc, logged, ch, closed, chClosed, pendingWG, wbuf, file,
                   fileClosed, wpc, once, closeErr, dropped, fpc, flushReq, flushDone>>
    /\ UNCHANGED quiet
    /\ UNCHANGED logPath
    /\ UNCHANGED batchVars
    /\ UNCHANGED supVars

\* Close: close(l.ch); closing a closed channel panics
CloseCh(c) ==
    /\ cpc[c] = "closeCh"
    /\ chClosed' = TRUE
    /\ cpc' = [cpc EXCEPT ![c] = IF chClosed THEN "panicked" ELSE "wait"]
    /\ UNCHANGED <<lpc, logged, ch, closed, doneClosed, pendingWG, wbuf,
                   file, fileClosed, wpc, once, closeErr, dropped, fpc,
                   flushReq, flushDone>>
    /\ UNCHANGED quiet
    /\ UNCHANGED logPath
    /\ UNCHANGED batchVars
    /\ UNCHANGED supVars

\* Close: the worker stopped gracefully
CloseWorkerDone(c) ==
    /\ cpc[c] = "wait"
    /\ wpc = "exited"
    /\ cpc' = [cpc EXCEPT ![c] = "flush"]
    /\ UNCHANGED <<lpc, logged, ch, closed, doneClosed, chClosed, pendingWG,
                   wbuf, file, fileClosed, wpc, once, closeErr, dropped, fpc,
                   flushReq, flushDone>>
    /\ UNCHANGED quiet
    /\ UNCHANGED logPath
    /\ UNCHANGED batchVars
    /\ UNCHANGED supVars

\* Close: five seconds passed and the worker has not stopped
CloseWorkerTimeout(c) ==
    /\ cpc[c] = "wait"
    /\ wpc = "run"
    /\ closeErr' = [closeErr EXCEPT ![c] = "logger worker timeout during close"]
    /\ cpc' = [cpc EXCEPT ![c] = "flush"]
    /\ UNCHANGED <<lpc, logged, ch, closed, doneClosed, chClosed, pendingWG,
                   wbuf, file, fileClosed, wpc, once, dropped, fpc, flushReq, flushDone>>
    /\ UNCHANGED quiet
    /\ UNCHANGED logPath
    /\ UNCHANGED batchVars
    /\ UNCHANGED supVars

\* Close: writer.Flush; while the worker still runs the two goroutines use
\* the bufio.Writer without synchronisation, and the flush may or may not
\* write the buffer and may or may not empty it
CloseFlush(c) ==
    /\ cpc[c] = "flush"
    /\ IF wpc = "run"
       THEN /\ file' \in {file, file \o wbuf}
            /\ wbuf' \in {wbuf, <<>>}
       ELSE /\ file' = FlushedFile
            /\ wbuf' = FlushedBuf
    /\ cpc' = [cpc EXCEPT ![c] = "file"]
    /\ UNCHANGED <<lpc, logged, ch, closed, doneClosed, chClosed, pendingWG,
                   fileClosed, wpc, once, closeErr, dropped, fpc, flushReq, flushDone>>
    /\ UNCHANGED quiet
    /\ UNCHANGED logPath
    /\ UNCHANGED batchVars
    /\ UNCHANGED supVars

\* Close: file.Sync, file.Close (both fail on a file already closed; the
\* first error is kept), the function of closeOnce returns
CloseFile(c) ==
    /\ cpc[c] = "file"
    /\ fileClosed' = TRUE
    /\ closeErr' = IF fileClosed /\ closeErr[c] = ""
                   THEN [closeErr EXCEPT ![c] = "file already closed"]
                   ELSE closeErr
    /\ once' = "done"
    /\ cpc' = [cpc EXCEPT ![c] = "returned"]
    /\ UNCHANGED <<lpc, logged, ch, closed, doneClosed, chClosed, pendingWG,
                   wbuf, file, wpc, dropped, fpc, flushReq, flushDone>>
    /\ UNCHANGED quiet
    /\ UNCHANGED logPath
    /\ UNCHANGED batchVars
    /\ UNCHANGED supVars

\* Close: a caller that waited for closeOnce returns nil
CloseUnblock(c) ==
    /\ cpc[c] = "blocked"
    /\ once = "done"
    /\ cpc' = [cpc EXCEPT ![c] = "returned"]
    /\ UNCHANGED <<lpc, logged, ch, closed, doneClosed, chClosed, pendingWG,
                   wbuf, file, fileClosed, wpc, once, closeErr, dropped, fpc,
                   flushReq, flushDone>>
    /\ UNCHANGED quiet
    /\ UNCHANGED logPath
    /\ UNCHANGED batchVars
    /\ UNCHANGED supVars

\* Flush: the call begins to wait for pendingWG
FlushCall ==
    /\ fpc = "idle"
    /\ fpc' = "pending"
    /\ UNCHANGED <<lpc, logged, ch, closed, doneClosed, chClosed, pendingWG,
                   wbuf, file, fileClosed, wpc, once, cpc, closeErr, dropped,
                   flushReq, flushDone>>
    /\ quiet' = (\A p \in Producers : lpc[p] = "idle")
    /\ UNCHANGED logPath
    /\ UNCHANGED batchVars
    /\ UNCHANGED supVars

WaitReturns_Always(counter) == TRUE

\* sync.WaitGroup.Wait returns when the counter is zero
WaitReturns(counter) == counter = 0

\* Flush: all pending entries processed
FlushPendingDone ==
    /\ fpc = "pending"
    /\ WaitReturns(pendingWG)
    /\ fpc' = "request"
    /\ UNCHANGED <<lpc, logged, ch, closed, doneClosed, chClosed, pendingWG,
                   wbuf, file, fileClosed, wpc, once, cpc, closeErr, dropped,
                   flushReq, flushDone>>
    /\ UNCHANGED quiet
    /\ UNCHANGED logPath
    /\ UNCHANGED batchVars
    /\ UNCHANGED supVars

\* Flush: five seconds passed with entries pending, return without flush
FlushPendingTimeout ==
    /\ fpc = "pending"
    /\ ~WaitReturns(pendingWG)
    /\ fpc' = "idle"
    /\ UNCHANGED <<lpc, logged, ch, closed, doneClosed, chClosed, pendingWG,
                   wbuf, file, fileClosed, wpc, once, cpc, closeErr, dropped,
                   flushReq, flushDone>>
    /\ quiet' = FALSE
    /\ UNCHANGED logPath
    /\ UNCHANGED batchVars
    /\ UNCHANGED supVars

\* Flush: the flush request, a fresh flushDone channel, is sent; a request
\* in the channel is "waited" while its Flush call waits for it and
\* "abandoned" once that call has returned
FlushRequest ==
    /\ fpc = "request"
    /\ CanSend(flushReq, FlushReqCap)
    /\ flushReq' = Append(flushReq, "waited")
    /\ flushDone' = FALSE
    /\ fpc' = "waitDone"
    /\ UNCHANGED <<lpc, logged, ch, closed, doneClosed, chClosed, pendingWG,
                   wbuf, file, fileClosed, wpc, once, cpc, closeErr, dropped>>
    /\ UNCHANGED quiet
    /\ UNCHANGED logPath
    /\ UNCHANGED batchVars
    /\ UNCHANGED supVars

\* Flush: the logger is closing
FlushClosing ==
    /\ fpc = "request"
    /\ doneClosed
    /\ fpc' = "idle"
    /\ UNCHANGED <<lpc, logged, ch, closed, doneClosed, chClosed, pendingWG,
                   wbuf, file, fileClosed, wpc, once, cpc, closeErr, dropped,
                   flushReq, flushDone>>
    /\ quiet' = FALSE
    /\ UNCHANGED logPath
    /\ UNCHANGED batchVars
    /\ UNCHANGED supVars

\* Flush: one second passed and the request could not be sent
FlushRequestTimeout ==
    /\ fpc = "request"
    /\ ~CanSend(flushReq, FlushReqCap)
    /\ ~doneClosed
    /\ fpc' = "idle"
    /\ UNCHANGED <<lpc, logged, ch, closed, doneClosed, chClosed, pendingWG,
                   wbuf, file, fileClosed, wpc, once, cpc, closeErr, dropped,
                   flushReq, flushDone>>
    /\ quiet' = FALSE
    /\ UNCHANGED logPath
    /\ UNCHANGED batchVars
    /\ UNCHANGED supVars

\* Flush: the flush completed
FlushCompleted ==
    /\ fpc = "waitDone"
    /\ flushDone
    /\ flushDone' = FALSE
    /\ fpc' = "idle"
    /\ UNCHANGED <<lpc, logged, ch, closed, doneClosed, chClosed, pendingWG,
                   wbuf, file, fileClosed, wpc, once, cpc, closeErr, dropped,
                   flushReq>>
    /\ quiet' = FALSE
    /\ UNCHANGED logPath
    /\ UNCHANGED batchVars
    /\ UNCHANGED supVars

\* Flush: one second passed and the flush has not completed
FlushDoneTimeout ==
    /\ fpc = "waitDone"
    /\ ~flushDone
    /\ flushReq' = [k \in DOMAIN flushReq |-> "abandoned"]
    /\ fpc' = "idle"
    /\ UNCHANGED <<lpc, logged, ch, closed, doneClosed, chClosed, pendingWG,
                   wbuf, file, fileClosed, wpc, once, cpc, closeErr, dropped,
                   flushDone>>
    /\ quiet' = FALSE
    /\ UNCHANGED logPath
    /\ UNCHANGED batchVars
    /\ UNCHANGED supVars

LogNext ==
    \/ \E p \in Producers :
          LogEnter(p) \/ LogAdd(p) \/ LogSend(p) \/ LogSendClosed(p) \/ LogDrop(p)
    \/ WriterReceive \/ WriterFinal \/ WriterTick \/ WriterFlushReq
    \/ \E c \in Closers :
          \/ CloseCall(c) \/ CloseStore(c) \/ CloseDone(c) \/ CloseCh(c)
          \/ CloseWorkerDone(c) \/ CloseWorkerTimeout(c) \/ CloseFlush(c)
          \/ CloseFile(c) \/ CloseUnblock(c)
    \/ FlushCall \/ FlushPendingDone \/ FlushPendingTimeout \/ FlushRequest
    \/ FlushClosing \/ FlushRequestTimeout \/ FlushCompleted
    \/ FlushDoneTimeout

SpecLog == LogInit /\ [][LogNext]_vars

\* C10: a log call never waits for the writer: when the queue holds its full
\* capacity of entries, the producer inside the call can return at once,
\* with its entry dropped, whatever the writer does.
C10_LogNeverBlocks ==
    \A p \in Producers :
        (lpc[p] = "select" /\ Len(ch) = LogQueueCap) => ENABLED LogDrop(p)


\* no Close call gave up waiting for the worker: the writer goroutine is the
\* only user of the bufio.Writer while it runs
NoWorkerTimeout == \A c \in Closers : closeErr[c] = ""

EntriesOf(p, seq) == SelectSeq(seq, LAMBDA e : e[1] = p)

\* C11: for every producer, its entries in the file appear in the order in
\* which it submitted them (each one once, by increasing call number),
\* whatever the interleaving with the other producers, the ticker's flushes
\* and the explicit flush requests, as long as no Close call has given up
\* waiting for the worker.
C11_FileKeepsProducerOrder ==
    NoWorkerTimeout =>
        \A p \in Producers :
            LET mine == EntriesOf(p, file)
            IN  \A i, j \in DOMAIN mine : i < j => mine[i][2] < mine[j][2]

\* two entries of one producer are in the file with an entry of another
\* producer between them, the writer still running and nothing buffered
C11_Witness ==
    /\ NoWorkerTimeout
    /\ Len(file) = 3
    /\ file[1][1] = file[3][1]
    /\ file[2][1] # file[1][1]
    /\ file[1][2] < file[3][2]
    /\ wbuf = <<>>
    /\ fpc = "idle" /\ flushReq = <<>>
    /\ wpc = "run"


\* the caller is inside the function given to closeOnce.Do
InsideDo(c) == cpc[c] \in {"store", "closeDone", "closeCh", "wait", "flush", "file"}

\* C12: however many times Close is called, one after the other or at the
\* same time, the effect is that of one close: at most one call is ever
\* inside the closing function, it finds done, the queue and the file still
\* open when it closes them (each is closed once), no call panics, at most
\* one call returns an error and a call that waited for closeOnce returns
\* none.
C12_CloseIsIdempotent ==
    /\ \A c \in Closers : cpc[c] # "panicked"
    /\ \A c, d \in Closers : InsideDo(c) /\ InsideDo(d) => c = d
    /\ \A c \in Closers :
         /\ cpc[c] = "closeDone" => ~doneClosed
         /\ cpc[c] = "closeCh" => ~chClosed
         /\ cpc[c] \in {"flush", "file"} => ~fileClosed
         /\ cpc[c] = "blocked" => closeErr[c] = ""
         /\ cpc[c] = "returned" => once = "done" /\ chClosed /\ fileClosed
    /\ \A c, d \in Closers : closeErr[c] # "" /\ closeErr[d] # "" => c = d

\* both calls have returned, the first with the worker timeout, the other,
\* which waited for it or came later, with no error
C12_Witness ==
    /\ \A c \in Closers : cpc[c] = "returned"
    /\ \E c \in Closers : closeErr[c] # ""
    /\ \E c \in Closers : closeErr[c] = ""
    /\ chClosed /\ fileClosed /\ once = "done"


\* the log calls made so far, as entries
Submitted ==
    {e \in {logEntry(p, k) : p \in Producers, k \in 1..MaxLogs} : e[2] <= logged[e[1]]}

\* the entry of a log call that has not returned
InFlight == {logEntry(p, logged[p]) : p \in {q \in Producers : lpc[q] # "idle"}}

\* the entries that log calls have put into the queue
Accepted == (Submitted \ dropped) \ InFlight

\* C13: once a close that did not time out on the worker has closed the
\* file, every entry accepted into the queue (before Close was called or
\* while it was closing) is in the file, and nothing is left in the queue or
\* in the writer's buffer.
C13_NormalCloseLosesNothing ==
    (fileClosed /\ NoWorkerTimeout) =>
        /\ \A e \in Accepted : \E k \in DOMAIN file : file[k] = e
        /\ ch = <<>> /\ wbuf = <<>>

\* a normal close has closed the file, which holds at least two accepted
\* entries, and a log call made during the close was dropped
C13_Witness ==
    /\ fileClosed /\ NoWorkerTimeout
    /\ Cardinality(Accepted) >= 2
    /\ Len(file) >= 2
    /\ dropped # {}


\* the writer has closed the flushDone channel the Flush call waits for:
\* the flush has completed
FlushServed == fpc = "waitDone" /\ flushDone

CountIn(e, seq) == Cardinality({k \in DOMAIN seq : seq[k] = e})

\* C14: when a Flush call that began after the producers had returned from
\* their log calls (no log call in progress then or since) has completed,
\* every entry logged and not dropped by a closing logger is in the file
\* exactly once, as long as no Close call has given up waiting for the
\* worker; this holds whether or not the entries fit into the queue.
C14_FlushedEntriesExactlyOnce ==
    (FlushServed /\ quiet /\ NoWorkerTimeout) =>
        \A e \in Submitted \ dropped : CountIn(e, file) = 1

\* both producers have logged, the entries together fit into the queue, no
\* Close was called, and the Flush begun after their return has completed
C14_Witness ==
    /\ FlushServed /\ quiet
    /\ once = "new"
    /\ \A p \in Producers : logged[p] >= 1
    /\ Cardinality(Submitted) <= LogQueueCap
    /\ Len(file) = Cardinality(Submitted)


(***************************************************************************)
(* The event stream (main.go): lines of the codex process's stdout and     *)
(* parseJSONStreamWithLog.  Texts are sequences of characters.             *)
(***************************************************************************)
\* the JSON values an item's text field can hold
TextString(s) == [tag |-> "string", str |-> s, list |-> <<>>]

TextList(l) == [tag |-> "list", str |-> <<>>, list |-> l]

TextOther == [tag |-> "other", str |-> <<>>, list |-> <<>>]

StringElem(s) == [isString |-> TRUE, str |-> s]

OtherElem == [isString |-> FALSE, str |-> <<>>]

RECURSIVE ConcatStrings(_)
ConcatStrings(l) ==
    IF l = <<>> THEN <<>>
    ELSE (IF Head(l).isString THEN Head(l).str ELSE <<>>) \o ConcatStrings(Tail(l))

normalizeText(text) ==
    CASE text.tag = "string" -> text.str
      [] text.tag = "list" -> ConcatStrings(text.list)
      [] OTHER -> <<>>

\* a line that decodes into a JSONEvent
JSONEvent(type, threadID, hasItem, itemType, text) ==
    [kind |-> "event", type |-> type, thread_id |-> threadID,
     hasItem |-> hasItem, itemType |-> itemType, text |-> text]

ThreadStarted(threadID) == JSONEvent("thread.started", threadID, FALSE, "", TextOther)

ItemCompleted(itemType, text) == JSONEvent("item.completed", "", TRUE, itemType, text)

AgentMessage(text) == ItemCompleted("agent_message", text)

\* a line, not blank, that json.Unmarshal rejects
MalformedLine ==
    [kind |-> "malformed", type |-> "", thread_id |-> "", hasItem |-> FALSE,
     itemType |-> "", text |-> TextOther]

\* a line that is empty once trimmed
BlankLine ==
    [kind |-> "blank", type |-> "", thread_id |-> "", hasItem |-> FALSE,
     itemType |-> "", text |-> TextOther]

\* a line longer than the scanner's maximum token size (10 MiB)
OversizeLine ==
    [kind |-> "oversize", type |-> "", thread_id |-> "", hasItem |-> FALSE,
     itemType |-> "", text |-> TextOther]

Overwrite_KeepFirst(current, new) == IF current = <<>> THEN new ELSE current

\* message = normalized: the later value replaces the earlier one
Overwrite(current, new) == new

IsAgentMessage(line) ==
    line.hasItem /\ line.itemType = "agent_message" /\ normalizeText(line.text) # <<>>

Warned_Abort(st) == [st EXCEPT !.warnings = @ + 1, !.stopped = TRUE]

\* json.Unmarshal failed: one warning, continue with the next line
Warned(st) == [st EXCEPT !.warnings = @ + 1]

\* one iteration of the scan loop; a line too long for the scanner ends
\* the loop with a read error, which is warned about after the loop
ParseStep(st, line) ==
    IF st.stopped THEN st
    ELSE CASE line.kind = "oversize" ->
                [st EXCEPT !.warnings = @ + 1, !.stopped = TRUE]
           [] line.kind = "blank" -> st
           [] line.kind = "malformed" -> Warned(st)
           [] line.type = "thread.started" ->
                [st EXCEPT !.threadID = line.thread_id]
           [] line.type = "item.completed" /\ IsAgentMessage(line) ->
                [st EXCEPT !.message = Overwrite(@, normalizeText(line.text))]
           [] OTHER -> st

RECURSIVE ParseFrom(_, _)
ParseFrom(st, lines) ==
    IF lines = <<>> THEN st ELSE ParseFrom(ParseStep(st, Head(lines)), Tail(lines))

\* parseJSONStreamWithLog on a reader that delivers all the lines
parseJSONStreamWithLog(lines) == ParseFrom(NoParse, lines)


(***************************************************************************)
(* The process supervisor (main.go): runCodexTaskWithContext, the codex    *)
(* process, the goroutine of cmd.Wait and the goroutine of the parser.     *)
(***************************************************************************)
\* lines the codex process writes
MaxOutput == 2

SupLines ==
    {AgentMessage(TextString(<<"a">>)), AgentMessage(TextString(<<"b">>)),
     ThreadStarted("t1"), MalformedLine}

\* exit statuses of a codex process that ends by itself
ChildStatuses == {0, 2}

\* the returns before the process runs: exit code and error
StartFailures ==
    {<<1, "failed to create stdin pipe">>, <<1, "failed to create stdout pipe">>,
     <<127, "codex command not found in PATH">>, <<1, "failed to start codex">>}

\* a failure that always reports exit code 1
Failure_ExitOne(code, msg) ==
    [ExitCode |-> 1, Message |-> <<>>, SessionID |-> "", Error |-> msg,
     Stderr |-> TRUE]

\* result.Error = attachStderr(msg)
Failure(code, msg) ==
    [ExitCode |-> code, Message |-> <<>>, SessionID |-> "", Error |-> msg,
     Stderr |-> TRUE]

Success(message, threadID) ==
    [ExitCode |-> 0, Message |-> message, SessionID |-> threadID, Error |-> "",
     Stderr |-> FALSE]

DeadlineExceeded_Never(err) == FALSE

\* errors.Is(ctxErr, context.DeadlineExceeded)
DeadlineExceeded(err) == err = "deadline"

NoMessage_Never(message) == FALSE

\* message == ""
NoMessage(message) == message = <<>>

CtxDone_Never(err) == FALSE

\* ctx.Err() != nil
CtxDone(err) == err # ""

\* the classification after cmd.Wait and the parser have returned
Classify(err, st, pr) ==
    IF CtxDone(err)
    THEN IF DeadlineExceeded(err)
         THEN Failure(124, "codex execution timeout")
         ELSE Failure(130, "execution cancelled")
    ELSE IF st # 0 THEN Failure(st, "codex exited with status")
    ELSE IF NoMessage(pr.message)
         THEN Failure(1, "codex completed without agent_message output")
    ELSE Success(pr.message, pr.threadID)

SupInit ==
    /\ tasks = <<>>
    /\ sortRes = NotSorted
    /\ pc = "supervisor"
    /\ ExecIdle
    /\ LogIdle
    /\ spc = "start" /\ child = "none" /\ status = 0
    /\ stream = <<>> /\ ppos = 0 /\ parsed = NoParse /\ parseDone = FALSE
    /\ waitDone = FALSE /\ ctxErr = "" /\ firedRunning = FALSE
    /\ termSent = FALSE /\ result = NoResult
    /\ sigs = <<>> /\ killTimer = "none" /\ causes = <<>>
    /\ TailIdle

\* the pipes are created and cmd.Start is called: the process runs, or the
\* supervisor returns a start failure (always so when ctx is already done)
SupStart ==
    /\ spc = "start"
    /\ \/ /\ ctxErr = ""
          /\ child' = "running"
          /\ spc' = "select"
          /\ result' = result
       \/ /\ \E f \in StartFailures : result' = Failure(f[1], f[2])
          /\ spc' = "done"
          /\ child' = child
    /\ UNCHANGED <<status, stream, ppos, parsed, parseDone, waitDone, ctxErr,
                   firedRunning, termSent>>
    /\ UNCHANGED <<sigs, killTimer, causes>>
    /\ UNCHANGED batchVars
    /\ UNCHANGED logVars
    /\ UNCHANGED <<stderrBuf, stderrLog>>

\* the codex process writes a line to stdout
ChildWrite(line) ==
    /\ child = "running"
    /\ Len(stream) < MaxOutput
    /\ stream' = Append(stream, line)
    /\ UNCHANGED <<spc, child, status, ppos, parsed, parseDone, waitDone,
                   ctxErr, firedRunning, termSent, result>>
    /\ UNCHANGED <<sigs, killTimer, causes>>
    /\ UNCHANGED batchVars
    /\ UNCHANGED logVars
    /\ UNCHANGED <<stderrBuf, stderrLog>>

\* the codex process exits by itself
ChildExit(st) ==
    /\ child = "running"
    /\ child' = "exited"
    /\ status' = st
    /\ UNCHANGED <<spc, stream, ppos, parsed, parseDone, waitDone, ctxErr,
                   firedRunning, termSent, result>>
    /\ UNCHANGED <<sigs, killTimer, causes>>
    /\ UNCHANGED batchVars
    /\ UNCHANGED logVars
    /\ UNCHANGED <<stderrBuf, stderrLog>>

\* signals that never reach the process
Signal_Lost(sig, by) == sigs

\* cmd.Process.Signal and cmd.Process.Kill: the signal reaches the process
\* unless cmd.Wait has already reaped it
Signal(sig, by) ==
    IF waitDone THEN sigs
    ELSE Append(sigs, [sig |-> sig, by |-> by, alive |-> child = "running"])

\* commandContext is exec.CommandContext: once ctx is done, os/exec itself
\* calls cmd.Process.Kill, whatever the supervisor's select is doing
ExecKill ==
    /\ child # "none"
    /\ CtxDone(ctxErr)
    /\ ~waitDone
    /\ \A k \in DOMAIN sigs : sigs[k].by # "exec"
    /\ sigs' = Signal("KILL", "exec")
    /\ UNCHANGED <<spc, child, status, stream, ppos, parsed, parseDone,
                   waitDone, ctxErr, firedRunning, termSent, killTimer,
                   causes, result>>
    /\ UNCHANGED batchVars
    /\ UNCHANGED logVars
    /\ UNCHANGED <<stderrBuf, stderrLog>>

\* the function of time.AfterFunc runs, forceKillDelay seconds after
\* terminateProcess armed it: cmd.Process.Kill
ForceKill ==
    /\ killTimer = "armed"
    /\ killTimer' = "fired"
    /\ sigs' = Signal("KILL", "timer")
    /\ UNCHANGED <<spc, child, status, stream, ppos, parsed, parseDone,
                   waitDone, ctxErr, firedRunning, termSent, causes, result>>
    /\ UNCHANGED batchVars
    /\ UNCHANGED logVars
    /\ UNCHANGED <<stderrBuf, stderrLog>>

\* the codex process is ended by a signal it was sent: the kill of
\* exec.CommandContext, the SIGTERM of terminateProcess or its forced kill
ChildKilled ==
    /\ child = "running"
    /\ sigs # <<>>
    /\ child' = "exited"
    /\ status' = -1
    /\ UNCHANGED <<spc, stream, ppos, parsed, parseDone, waitDone, ctxErr,
                   firedRunning, termSent, result>>
    /\ UNCHANGED <<sigs, killTimer, causes>>
    /\ UNCHANGED batchVars
    /\ UNCHANGED logVars
    /\ UNCHANGED <<stderrBuf, stderrLog>>

\* cmd.Wait returns: the process has exited; Wait closes the stdout pipe
\* and its error goes to waitCh
WaitReturn ==
    /\ child = "exited"
    /\ ~waitDone
    /\ waitDone' = TRUE
    /\ UNCHANGED <<spc, child, status, stream, ppos, parsed, parseDone,
                   ctxErr, firedRunning, termSent, result>>
    /\ UNCHANGED <<sigs, killTimer, causes>>
    /\ UNCHANGED batchVars
    /\ UNCHANGED logVars
    /\ UNCHANGED <<stderrBuf, stderrLog>>

\* the supervisor is between context.WithTimeout and its return
Supervising == spc \in {"start", "select", "terminating", "parse"}

\* a context whose error is that of the latest cancellation
Cancel_LastWins(err, cause) == cause

\* cancelCtx.cancel: the first cancellation sets the error, a later one
\* leaves it
Cancel(err, cause) == IF err = "" THEN cause ELSE err

\* the deadline of context.WithTimeout passes: ctx, its child, is cancelled
\* with context.DeadlineExceeded
DeadlineFires ==
    /\ Supervising
    /\ \A k \in DOMAIN causes : causes[k] # "deadline"
    /\ causes' = Append(causes, "deadline")
    /\ ctxErr' = Cancel(ctxErr, "deadline")
    /\ firedRunning' = IF CtxDone(ctxErr) THEN firedRunning
                       ELSE child = "running"
    /\ UNCHANGED <<spc, child, status, stream, ppos, parsed, parseDone,
                   waitDone, termSent, result>>
    /\ UNCHANGED <<sigs, killTimer>>
    /\ UNCHANGED batchVars
    /\ UNCHANGED logVars
    /\ UNCHANGED <<stderrBuf, stderrLog>>

\* SIGINT or SIGTERM is delivered: signal.NotifyContext cancels ctx with
\* context.Canceled if it is not done yet
SignalDelivered ==
    /\ Supervising
    /\ \A k \in DOMAIN causes : causes[k] # "signal"
    /\ causes' = Append(causes, "signal")
    /\ ctxErr' = Cancel(ctxErr, "canceled")
    /\ firedRunning' = IF CtxDone(ctxErr) THEN firedRunning
                       ELSE child = "running"
    /\ UNCHANGED <<spc, child, status, stream, ppos, parsed, parseDone,
                   waitDone, termSent, result>>
    /\ UNCHANGED <<sigs, killTimer>>
    /\ UNCHANGED batchVars
    /\ UNCHANGED logVars
    /\ UNCHANGED <<stderrBuf, stderrLog>>

\* the select receives from waitCh
SupSelectWait ==
    /\ spc = "select"
    /\ waitDone
    /\ spc' = "parse"
    /\ UNCHANGED <<child, status, stream, ppos, parsed, parseDone, waitDone,
                   ctxErr, firedRunning, termSent, result>>
    /\ UNCHANGED <<sigs, killTimer, causes>>
    /\ UNCHANGED batchVars
    /\ UNCHANGED logVars
    /\ UNCHANGED <<stderrBuf, stderrLog>>

\* the select receives from ctx.Done(): terminateProcess sends SIGTERM and
\* arms the forced kill
SupSelectCtx ==
    /\ spc = "select"
    /\ CtxDone(ctxErr)
    /\ termSent' = TRUE
    /\ sigs' = Signal("TERM", "terminate")
    /\ killTimer' = "armed"
    /\ spc' = "terminating"
    /\ UNCHANGED <<child, status, stream, ppos, parsed, parseDone, waitDone,
                   ctxErr, firedRunning, causes, result>>
    /\ UNCHANGED batchVars
    /\ UNCHANGED logVars
    /\ UNCHANGED <<stderrBuf, stderrLog>>

\* waitErr = <-waitCh after terminateProcess, then forceKillTimer.Stop()
SupTerminated ==
    /\ spc = "terminating"
    /\ waitDone
    /\ spc' = "parse"
    /\ killTimer' = IF killTimer = "armed" THEN "stopped" ELSE killTimer
    /\ UNCHANGED <<child, status, stream, ppos, parsed, parseDone, waitDone,
                   ctxErr, firedRunning, termSent, result>>
    /\ UNCHANGED <<sigs, causes>>
    /\ UNCHANGED batchVars
    /\ UNCHANGED logVars
    /\ UNCHANGED <<stderrBuf, stderrLog>>

\* the parser scans one more line
ScanLine ==
    /\ child # "none"
    /\ ~parseDone
    /\ ~waitDone
    /\ ~parsed.stopped
    /\ ppos < Len(stream)
    /\ parsed' = ParseStep(parsed, stream[ppos + 1])
    /\ ppos' = ppos + 1
    /\ UNCHANGED <<spc, child, status, stream, parseDone, waitDone, ctxErr,
                   firedRunning, termSent, result>>
    /\ UNCHANGED <<sigs, killTimer, causes>>
    /\ UNCHANGED batchVars
    /\ UNCHANGED logVars
    /\ UNCHANGED <<stderrBuf, stderrLog>>

\* the parser reads the end of the stream and sends its result to parseCh
ScanEOF ==
    /\ child = "exited"
    /\ ~parseDone
    /\ ~waitDone
    /\ ppos = Len(stream)
    /\ parseDone' = TRUE
    /\ UNCHANGED <<spc, child, status, stream, ppos, parsed, waitDone,
                   ctxErr, firedRunning, termSent, result>>
    /\ UNCHANGED <<sigs, killTimer, causes>>
    /\ UNCHANGED batchVars
    /\ UNCHANGED logVars
    /\ UNCHANGED <<stderrBuf, stderrLog>>

\* the parser reads from the pipe that cmd.Wait has closed: a read error,
\* warned about, ends the scan; the lines not yet read are lost
ScanReadError ==
    /\ child # "none"
    /\ ~parseDone
    /\ waitDone
    /\ parsed' = Warned(parsed)
    /\ parseDone' = TRUE
    /\ UNCHANGED <<spc, child, status, stream, ppos, waitDone, ctxErr,
                   firedRunning, termSent, result>>
    /\ UNCHANGED <<sigs, killTimer, causes>>
    /\ UNCHANGED batchVars
    /\ UNCHANGED logVars
    /\ UNCHANGED <<stderrBuf, stderrLog>>

\* a supervisor that classifies what the parser holds without receiving
\* from parseCh
SupReturn_NoReceive ==
    /\ spc = "parse"
    /\ result' = Classify(ctxErr, status, parsed)
    /\ spc' = "done"
    /\ UNCHANGED <<child, status, stream, ppos, parsed, parseDone, waitDone,
                   ctxErr, firedRunning, termSent>>
    /\ UNCHANGED <<sigs, killTimer, causes>>
    /\ UNCHANGED batchVars
    /\ UNCHANGED logVars
    /\ UNCHANGED <<stderrBuf, stderrLog>>

\* parsed := <-parseCh, then the result is classified and returned
SupReturn ==
    /\ spc = "parse"
    /\ parseDone
    /\ result' = Classify(ctxErr, status, parsed)
    /\ spc' = "done"
    /\ UNCHANGED <<child, status, stream, ppos, parsed, parseDone, waitDone,
                   ctxErr, firedRunning, termSent>>
    /\ UNCHANGED <<sigs, killTimer, causes>>
    /\ UNCHANGED batchVars
    /\ UNCHANGED logVars
    /\ UNCHANGED <<stderrBuf, stderrLog>>

SupNext ==
    \/ SupStart
    \/ \E line \in SupLines : ChildWrite(line)
    \/ \E st \in ChildStatuses : ChildExit(st)
    \/ ChildKilled \/ WaitReturn \/ DeadlineFires \/ SignalDelivered
    \/ ExecKill \/ ForceKill
    \/ SupSelectWait \/ SupSelectCtx \/ SupTerminated
    \/ ScanLine \/ ScanEOF \/ ScanReadError
    \/ SupReturn

SpecSup == SupInit /\ [][SupNext]_vars


SupReturned == spc = "done" /\ child # "none"

\* C15: when the deadline fires while the codex process is running, and no
\* signal came before it, the supervisor returns exit code 124 with the
\* error "codex execution timeout" (the stderr tail attached), and by then
\* the process has exited and cmd.Wait has returned.
C15_DeadlineReturns124 ==
    (SupReturned /\ ctxErr = "deadline" /\ firedRunning) =>
        /\ result = Failure(124, "codex execution timeout")
        /\ child = "exited"
        /\ waitDone

\* the deadline fired on a running process, which was sent SIGTERM and ended
\* by a signal, and the supervisor has returned 124
C15_Witness ==
    /\ SupReturned /\ ctxErr = "deadline" /\ firedRunning
    /\ termSent /\ status = -1
    /\ result.ExitCode = 124

HasAgentMessage(lines) ==
    \E k \in DOMAIN lines : lines[k].type = "item.completed" /\ IsAgentMessage(lines[k])

\* C17: when the codex process has exited with status 0 after writing at
\* least one agent_message with text, and neither the deadline has fired nor
\* a signal been delivered, the supervisor returns exit code 0, no error,
\* the text of the last such agent_message and the last thread id written.
C17_CleanExitSucceeds ==
    (SupReturned /\ status = 0 /\ ctxErr = "" /\ HasAgentMessage(stream)) =>
        result = Success(parseJSONStreamWithLog(stream).message,
                         parseJSONStreamWithLog(stream).threadID)

MaxLines == 3

ParseLines ==
    {ThreadStarted("t1"), ThreadStarted("t2"), ThreadStarted(""),
     AgentMessage(TextString(<<"a">>)), AgentMessage(TextString(<<"b">>)),
     AgentMessage(TextString(<<>>)),
     AgentMessage(TextList(<<StringElem(<<"a">>), OtherElem, StringElem(<<"b">>)>>)),
     AgentMessage(TextOther),
     ItemCompleted("reasoning", TextString(<<"a">>)),
     JSONEvent("item.completed", "", FALSE, "", TextOther),
     JSONEvent("turn.completed", "", FALSE, "", TextOther),
     MalformedLine, BlankLine, OversizeLine}

ParseInit ==
    /\ tasks = <<>>
    /\ sortRes = NotSorted
    /\ pc = "parser"
    /\ ExecIdle
    /\ LogIdle
    /\ spc = "input" /\ child = "none" /\ status = 0
    /\ stream = <<>> /\ ppos = 0 /\ parsed = NoParse /\ parseDone = FALSE
    /\ waitDone = FALSE /\ ctxErr = "" /\ firedRunning = FALSE
    /\ termSent = FALSE /\ result = NoResult
    /\ sigs = <<>> /\ killTimer = "none" /\ causes = <<>>
    /\ TailIdle

\* the reader holds one more line
AppendLine(line) ==
    /\ pc = "parser" /\ spc = "input"
    /\ Len(stream) < MaxLines
    /\ stream' = Append(stream, line)
    /\ UNCHANGED <<spc, child, status, ppos, parsed, parseDone, waitDone,
                   ctxErr, firedRunning, termSent, result>>
    /\ UNCHANGED <<sigs, killTimer, causes>>
    /\ UNCHANGED batchVars
    /\ UNCHANGED logVars
    /\ UNCHANGED <<stderrBuf, stderrLog>>

\* parseJSONStreamWithLog(r, ...) runs to its return
ParseStream ==
    /\ pc = "parser" /\ spc = "input"
    /\ parsed' = parseJSONStreamWithLog(stream)
    /\ parseDone' = TRUE
    /\ spc' = "parsed"
    /\ UNCHANGED <<child, status, stream, ppos, waitDone, ctxErr,
                   firedRunning, termSent, result>>
    /\ UNCHANGED <<sigs, killTimer, causes>>
    /\ UNCHANGED batchVars
    /\ UNCHANGED logVars
    /\ UNCHANGED <<stderrBuf, stderrLog>>

ParseNext ==
    \/ \E line \in ParseLines : AppendLine(line)
    \/ ParseStream

SpecParse == ParseInit /\ [][ParseNext]_vars

\* every line of the stream fits the scanner's buffer
WithinLimit(lines) == \A i \in DOMAIN lines : lines[i].kind # "oversize"

Latest(S) == CHOOSE i \in S : \A j \in S : j <= i

\* positions of the agent_message items with a non-empty text
AgentMessagesIn(lines) ==
    {i \in DOMAIN lines :
        /\ lines[i].kind = "event" /\ lines[i].type = "item.completed"
        /\ lines[i].hasItem /\ lines[i].itemType = "agent_message"
        /\ normalizeText(lines[i].text) # <<>>}

\* positions of the thread.started events
ThreadStartsIn(lines) ==
    {i \in DOMAIN lines :
        lines[i].kind = "event" /\ lines[i].type = "thread.started"}

LastMessage(lines) ==
    IF AgentMessagesIn(lines) = {} THEN <<>>
    ELSE normalizeText(lines[Latest(AgentMessagesIn(lines))].text)

LastThread(lines) ==
    IF ThreadStartsIn(lines) = {} THEN ""
    ELSE lines[Latest(ThreadStartsIn(lines))].thread_id

\* C19: for every way to cut a stream (whose lines fit the scanner's
\* buffer) into s1 ++ s2 at a line boundary, the parse of the whole stream
\* returns as message the text of the last agent_message with a non-empty
\* text of s2 when s2 has one and otherwise the one of s1, and as thread id
\* the one of the last thread.started of s2 when s2 has one and otherwise
\* the one of s1: never an earlier value.
C19_ParseReturnsLastValues ==
    (spc = "parsed" /\ WithinLimit(stream)) =>
        \A k \in 0..Len(stream) :
            LET s1 == SubSeq(stream, 1, k)
                s2 == SubSeq(stream, k + 1, Len(stream))
            IN  /\ parsed.message =
                       IF AgentMessagesIn(s2) # {} THEN LastMessage(s2)
                       ELSE LastMessage(s1)
                /\ parsed.threadID =
                       IF ThreadStartsIn(s2) # {} THEN LastThread(s2)
                       ELSE LastThread(s1)
                /\ parsed.message =
                       IF parseJSONStreamWithLog(s2).message # <<>>
                       THEN parseJSONStreamWithLog(s2).message
                       ELSE parseJSONStreamWithLog(s1).message

\* a parsed stream with two agent messages after a thread.started: the
\* second message is returned, the first is not
C19_Witness ==
    /\ spc = "parsed"
    /\ stream = <<ThreadStarted("t1"), AgentMessage(TextString(<<"a">>)),
                  AgentMessage(TextString(<<"b">>))>>
    /\ parsed.message = <<"b">> /\ parsed.threadID = "t1"

NotMalformed(line) == line.kind # "malformed"

MalformedIn(lines) == {i \in DOMAIN lines : lines[i].kind = "malformed"}

\* C20: a stream (whose lines fit the scanner's buffer) with malformed
\* lines at any positions parses to the same message and thread id as the
\* stream without them, and the parse emits exactly one warning for each
\* malformed line.
C20_MalformedLinesAreSkipped ==
    (spc = "parsed" /\ WithinLimit(stream)) =>
        LET without == SelectSeq(stream, NotMalformed)
        IN  /\ parsed.message = parseJSONStreamWithLog(without).message
            /\ parsed.threadID = parseJSONStreamWithLog(without).threadID
            /\ parsed.message = LastMessage(without)
            /\ parsed.threadID = LastThread(without)
            /\ parsed.warnings = Cardinality(MalformedIn(stream))

\* a malformed line before a thread.started and an agent message: both are
\* still returned, with one warning
C20_Witness ==
    /\ spc = "parsed"
    /\ stream = <<MalformedLine, ThreadStarted("t1"),
                  AgentMessage(TextString(<<"a">>))>>
    /\ parsed.message = <<"a">> /\ parsed.threadID = "t1"
    /\ parsed.warnings = 1

(***************************************************************************)
(* Further claims about run and executeConcurrent, checked under Spec      *)
(***************************************************************************)
\* no supervisor invocation was ever started
NothingSpawned == \A id \in DOMAIN spawns : spawns[id] = 0

\* the batch cannot be scheduled: a dependency names no task, or the
\* dependencies form a cycle
Unschedulable(ts) == ts # <<>> /\ (~AllDepsKnown(ts) \/ HasCycle(ts))

\* C21: when parseParallelConfig fails (empty input, block without
\* ---CONTENT---, missing id, empty content, duplicate id, no task) or the
\* batch cannot be scheduled (unknown dependency, cycle), run returns 1, no
\* supervisor invocation was started and nothing was written to standard
\* output.
C21_ConfigErrorExitsBeforeLaunch ==
    (pc = "exited" /\ (cfgErr # "" \/ Unschedulable(tasks))) =>
        /\ exitCode = 1
        /\ NothingSpawned
        /\ worker = <<>>
        /\ stdout = <<>>

\* run has returned for a batch of three tasks, two of which depend on each
\* other
C21_Witness ==
    /\ pc = "exited" /\ cfgErr = ""
    /\ Len(tasks) = 3 /\ HasCycle(tasks) /\ AllDepsKnown(tasks)
    /\ sortRes.err = "cycle detected"
    /\ exitCode = 1 /\ stdout = <<>>

(***************************************************************************)
(* Further claims about runCodexTaskWithContext, checked under SpecSup     *)
(***************************************************************************)
\* C22: when the codex process exits with a non-zero status c and ctx is not
\* done (neither the deadline nor a signal), the result has exit code c, the
\* error "codex exited with status c" with the stderr tail attached, and an
\* empty message and session id, even when agent_message events were parsed.
C22_NonZeroExitPassesThrough ==
    (SupReturned /\ child = "exited" /\ status # 0 /\ ctxErr = "") =>
        /\ result.ExitCode = status
        /\ result.Error = "codex exited with status"
        /\ result.Stderr
        /\ result.Message = <<>>
        /\ result.SessionID = ""

\* the process wrote an agent message, which the parser read, and exited
\* with status 2
C22_Witness ==
    /\ SupReturned /\ child = "exited" /\ status = 2 /\ ctxErr = ""
    /\ parsed.message # <<>>
    /\ result.ExitCode = 2 /\ result.Message = <<>>

(***************************************************************************)
(* run() for a single task (main.go:360-551): the logger is created, the   *)
(* task is handed to the supervisor, and the deferred calls flush and      *)
(* close the logger and remove its file.  Logger.Flush and Logger.Close,   *)
(* explored step by step under SpecLog, are single steps here.             *)
(***************************************************************************)
\* after NewLogger and setLogger, main.go:376-381: the log file exists
RunInit ==
    /\ tasks = <<>>
    /\ sortRes = NotSorted
    /\ pc = "run"
    /\ ExecIdle
    /\ NewLogger
    /\ spc = "start" /\ child = "none" /\ status = 0
    /\ stream = <<>> /\ ppos = 0 /\ parsed = NoParse /\ parseDone = FALSE
    /\ waitDone = FALSE /\ ctxErr = "" /\ firedRunning = FALSE
    /\ termSent = FALSE /\ result = NoResult
    /\ sigs = <<>> /\ killTimer = "none" /\ causes = <<>>
    /\ TailIdle

\* main.go:452-478: parseArgs or the read of stdin fails; run returns 1
\* before the supervisor is called
RunArgsFail ==
    /\ pc = "run" /\ spc = "start" /\ ctxErr = ""
    /\ spc' = "none"
    /\ exitCode' = 1
    /\ pc' = "deferred"
    /\ UNCHANGED <<tasks, sortRes, li, ti, ci, executed, results, failed,
                   resultsCh, worker, spawns, cfgErr, stdout, panicked>>
    /\ UNCHANGED logVars
    /\ UNCHANGED <<child, status, stream, ppos, parsed, parseDone, waitDone,
                   ctxErr, firedRunning, termSent, result>>
    /\ UNCHANGED <<sigs, killTimer, causes, stderrBuf, stderrLog>>
    /\ UNCHANGED interrupt

\* main.go:540-550: runCodexTask has returned; a failure's exit code is
\* returned, a success prints the message and the session id
RunResult ==
    /\ pc = "run" /\ spc = "done"
    /\ exitCode' = result.ExitCode
    /\ stdout' = IF result.ExitCode # 0 THEN stdout
                 ELSE IF result.SessionID # ""
                      THEN <<result.Message, result.SessionID>>
                      ELSE <<result.Message>>
    /\ pc' = "deferred"
    /\ UNCHANGED <<tasks, sortRes, li, ti, ci, executed, results, failed,
                   resultsCh, worker, spawns, cfgErr, panicked>>
    /\ UNCHANGED logVars
    /\ UNCHANGED supVars
    /\ UNCHANGED interrupt

\* main.go:384-387: the deferred logger.Flush()
RunFlush ==
    /\ pc = "deferred"
    /\ pc' = "flushed"
    /\ UNCHANGED <<tasks, sortRes, li, ti, ci, executed, results, failed,
                   resultsCh, worker, spawns, exitCode, cfgErr, stdout,
                   panicked>>
    /\ UNCHANGED logVars
    /\ UNCHANGED supVars
    /\ UNCHANGED interrupt

\* main.go:388-390: the deferred closeLogger(): Logger.Close stops the
\* writer goroutine and closes the file; it does not touch the path
RunCloseLogger ==
    /\ pc = "flushed"
    /\ closed' = TRUE /\ doneClosed' = TRUE /\ chClosed' = TRUE
    /\ wpc' = "exited" /\ fileClosed' = TRUE /\ once' = "done"
    /\ pc' = "closed"
    /\ UNCHANGED <<tasks, sortRes, li, ti, ci, executed, results, failed,
                   resultsCh, worker, spawns, exitCode, cfgErr, stdout,
                   panicked>>
    /\ UNCHANGED <<lpc, logged, ch, pendingWG, wbuf, file, cpc, closeErr,
                   dropped, fpc, flushReq, flushDone, quiet, logPath>>
    /\ UNCHANGED supVars
    /\ UNCHANGED interrupt

\* Logger.RemoveLogFile: os.Remove(l.path)
RemoveLogFile(path) == IF path = "exists" THEN "removed" ELSE path

\* main.go:391-396: the deferred logger.RemoveLogFile(), then run returns
RunRemoveLogFile ==
    /\ pc = "closed"
    /\ logPath' = RemoveLogFile(logPath)
    /\ pc' = "returned"
    /\ UNCHANGED <<tasks, sortRes, li, ti, ci, executed, results, failed,
                   resultsCh, worker, spawns, exitCode, cfgErr, stdout,
                   panicked>>
    /\ UNCHANGED <<lpc, logged, ch, closed, doneClosed, chClosed, pendingWG,
                   wbuf, file, fileClosed, wpc, once, cpc, closeErr, dropped,
                   fpc, flushReq, flushDone, quiet>>
    /\ UNCHANGED supVars
    /\ UNCHANGED interrupt

RunNext ==
    \/ RunArgsFail
    \/ SupNext
    \/ RunResult
    \/ RunFlush \/ RunCloseLogger \/ RunRemoveLogFile

SpecRun == RunInit /\ [][RunNext]_vars

\* C23: after run() has returned, with exit code 0 or with exit code 130
\* after a signal, the log file still exists; the close of the logger
\* leaves it in place.
C23_LogFileSurvivesRun ==
    /\ pc = "closed" => logPath = "exists"
    /\ (pc = "returned" /\ exitCode \in {0, 130}) => logPath = "exists"

(***************************************************************************)
(* Claims about the goroutines of executeConcurrent, checked under Spec    *)
(***************************************************************************)
\* the tasks of the layer being run for which a goroutine was launched
LaunchedOf(layer) == {k \in DOMAIN layer : worker[layer[k].ID] # "none"}

\* the tasks of the layer being run that were skipped
SkippedOf(layer) ==
    {k \in DOMAIN layer :
        \E r \in Range(results) : r.TaskID = layer[k].ID /\ IsSkip(r)}

\* C24: the launch loop never waits (it is enabled whatever the goroutines
\* launched before are doing), a launched goroutine can start its
\* invocation whatever the others are doing, and when the loop is over a
\* goroutine has been launched for every task of the layer that was not
\* skipped: nothing caps the number of invocations in progress.
C24_LayerRunsWithoutCap ==
    /\ \A id \in DOMAIN worker : worker[id] = "queued" => ENABLED WorkerStart(id)
    /\ pc = "launch" => ENABLED Launch
    /\ pc = "wait" =>
         LET layer == sortRes.layers[li]
         IN  /\ LaunchedOf(layer) \cup SkippedOf(layer) = DOMAIN layer
             /\ LaunchedOf(layer) \cap SkippedOf(layer) = {}
             /\ executed = Cardinality(LaunchedOf(layer))

\* a layer of three tasks whose three invocations are in progress together
C24_Witness ==
    /\ pc = "wait"
    /\ Len(sortRes.layers[li]) = 3
    /\ \A id \in DOMAIN worker : worker[id] = "running"

(***************************************************************************)
(* Claims about the goroutines of the supervisor, checked under SpecSup    *)
(***************************************************************************)
\* C25: once the codex process has been started, the supervisor returns
\* only after cmd.Wait has returned and the parser has returned, whether
\* the process exited cleanly, exited with a non-zero status, or was ended
\* after the deadline or a signal.
C25_ReturnsAfterWaiterAndParser ==
    (spc = "done" /\ child # "none") =>
        /\ waitDone
        /\ parseDone
        /\ child = "exited"

\* the supervisor has returned 130 for a process that was sent SIGTERM after
\* a signal; the parser had read a line before
C25_Witness ==
    /\ spc = "done" /\ child = "exited"
    /\ ctxErr = "canceled" /\ termSent
    /\ ppos > 0
    /\ waitDone /\ parseDone
    /\ result.ExitCode = 130

\* C26: when the codex process exited with status 0 (ctx not done), the
\* parser has read every line the process wrote before the supervisor
\* returns, and the returned message and session id are those of the parse
\* of the whole stream.
C26_NoTrailingEventLost ==
    (SupReturned /\ child = "exited" /\ status = 0 /\ ctxErr = "") =>
        /\ ppos = Len(stream)
        /\ parsed.message = parseJSONStreamWithLog(stream).message
        /\ parsed.threadID = parseJSONStreamWithLog(stream).threadID
        /\ result.ExitCode = 0 =>
             /\ result.Message = parseJSONStreamWithLog(stream).message
             /\ result.SessionID = parseJSONStreamWithLog(stream).threadID

(***************************************************************************)
(* Further claims about parseJSONStreamWithLog, checked under SpecParse    *)
(***************************************************************************)
\* positions of the thread.started events that carry a thread_id
ThreadIDsIn(lines) ==
    {i \in ThreadStartsIn(lines) : lines[i].thread_id # ""}

\* C27: the thread id returned for a stream (whose lines fit the scanner's
\* buffer) is the one of the last thread.started event that carries a
\* thread_id, and is empty when there is none: a thread.started without
\* thread_id, like every other line, leaves the recorded id as it is.
C27_ThreadIDKeptWithoutNewID ==
    (spc = "parsed" /\ WithinLimit(stream)) =>
        parsed.threadID =
            IF ThreadIDsIn(stream) = {} THEN ""
            ELSE stream[Latest(ThreadIDsIn(stream))].thread_id

(***************************************************************************)
(* Claims about skips and panics in executeConcurrent, checked under Spec  *)
(***************************************************************************)
\* the task ran (or panicked) and its result is a failure
RanAndFailed(id) == ~Succeeded(ResultOf(id)) /\ ~IsSkip(ResultOf(id))

\* the dependencies of task b, as listed, whose result is a failure or a skip
FailedDepsOf(b) ==
    SelectSeq(tasks[InputIndex(tasks, b)].Dependencies,
              LAMBDA d : ~Succeeded(ResultOf(d)))

PublishedOf(id) ==
    {<<"ch", k>> : k \in {j \in DOMAIN resultsCh : resultsCh[j].TaskID = id}}
        \cup {<<"results", k>> : k \in ResultsOf(id)}

PublishedResult(at) ==
    IF at[1] = "ch" THEN resultsCh[at[2]] ELSE results[at[2]]

\* C29: a task whose invocation panicked has exactly one result, published
\* or collected, with exit code 1 and the error "panic: ..."; when
\* executeConcurrent has returned it did so with one result for every task
\* of the batch, the panicked task is registered as failed and every task
\* that lists it as a dependency was skipped.
C29_PanicBecomesOneFailure ==
    \A id \in panicked :
        /\ Cardinality(PublishedOf(id)) = 1
        /\ \A at \in PublishedOf(id) :
               /\ PublishedResult(at).ExitCode = 1
               /\ PublishedResult(at).Error = "panic"
        /\ Returned =>
               /\ Len(results) = Len(tasks)
               /\ \A x \in IDs(tasks) : Cardinality(ResultsOf(x)) = 1
               /\ id \in DOMAIN failed
               /\ \A b \in IDs(tasks) :
                      id \in DepsOf(tasks, b) => IsSkip(ResultOf(b)) /\ spawns[b] = 0

\* executeConcurrent has returned: task 1 panicked, task 2 of the same layer
\* succeeded, task 3 depends on task 1 and was skipped
C29_Witness ==
    /\ Returned
    /\ Len(tasks) = 3
    /\ panicked = {1}
    /\ LayerOf(sortRes.layers, 2) = LayerOf(sortRes.layers, 1)
    /\ Succeeded(ResultOf(2))
    /\ 1 \in DepsOf(tasks, 3) /\ IsSkip(ResultOf(3))

\* executeConcurrent is running
Executing == pc \in {"launch", "wait", "collect"}

\* C30: while executeConcurrent runs, the results waiting in resultsCh never
\* outnumber the tasks of the batch, an invocation in progress can always
\* publish its result (the send does not block, for a return as for a
\* panic), the barrier opens as soon as every goroutine is done, and the
\* collecting loop then finds a result for each goroutine it launched: no
\* state of the run is stuck.
C30_PublishingNeverBlocks ==
    Executing =>
        /\ Len(resultsCh) <= Len(tasks)
        /\ \A id \in DOMAIN worker :
               worker[id] = "running" =>
                   ENABLED WorkerReturn(id) /\ ENABLED WorkerPanic(id)
        /\ (pc = "wait" /\ WgCount = 0) =>
               ENABLED WaitLayer /\ Len(resultsCh) = executed
        /\ pc = "collect" => Len(resultsCh) = executed - ci
        /\ ENABLED Next

\* three invocations of one layer have published: the channel is full
C30_Witness ==
    /\ pc = "wait"
    /\ Len(tasks) = 3
    /\ Len(resultsCh) = 3
    /\ \A id \in DOMAIN worker : worker[id] = "done"

(***************************************************************************)
(* Further claims about topologicalSort, checked under SpecTopo            *)
(***************************************************************************)
Largest(S) == CHOOSE x \in S : \A y \in S : y <= x

\* tasks on the longest dependency chain that ends at id (fuel bounds the
\* recursion; a chain of an acyclic batch has at most Len(ts) tasks)
RECURSIVE ChainLength(_, _, _)
ChainLength(ts, id, fuel) ==
    IF fuel = 0 \/ DepsOf(ts, id) = {} THEN 1
    ELSE 1 + Largest({ChainLength(ts, d, fuel - 1) : d \in DepsOf(ts, id)})

\* C31: when topologicalSort succeeds every task is in the earliest layer
\* its dependencies allow: the first layer for a task without dependencies,
\* otherwise the layer right after the last layer holding one of its
\* dependencies; the number of layers is the number of tasks on the longest
\* dependency chain.
C31_EarliestLayer ==
    (Sorted /\ sortRes.err = "") =>
        /\ \A id \in IDs(tasks) :
               LayerOf(sortRes.layers, id) =
                   IF DepsOf(tasks, id) = {} THEN 1
                   ELSE 1 + Largest({LayerOf(sortRes.layers, d) :
                                        d \in DepsOf(tasks, id)})
        /\ \A id \in IDs(tasks) :
               LayerOf(sortRes.layers, id) = ChainLength(tasks, id, Len(tasks))
        /\ Len(sortRes.layers) =
               Largest({ChainLength(tasks, id, Len(tasks)) : id \in IDs(tasks)})

\* four tasks in three layers: one task depends on tasks of two different
\* layers and sits right after the later one
C31_Witness ==
    /\ Sorted /\ sortRes.err = ""
    /\ Len(tasks) = 4 /\ Len(sortRes.layers) = 3
    /\ \E id \in IDs(tasks) :
         /\ LayerOf(sortRes.layers, id) = 3
         /\ \E d1, d2 \in DepsOf(tasks, id) :
              LayerOf(sortRes.layers, d1) = 1 /\ LayerOf(sortRes.layers, d2) = 2

\* id lies on a dependency cycle
OnCycle(ts, id) == id \in ReachWithin(ts, id, Len(ts))

\* id lies on a cycle or depends, directly or through other tasks, on a task
\* that does
BehindCycle(ts, id) ==
    \/ OnCycle(ts, id)
    \/ \E a \in ReachWithin(ts, id, Len(ts)) : OnCycle(ts, a)

\* C32 as stated: the ids named by the cycle error are exactly the tasks
\* that lie on a dependency cycle, in sorted order.
C32_ErrorNamesCycleMembers ==
    (Sorted /\ sortRes.err = "cycle detected") =>
        sortRes.errIDs = SortedSeq({id \in IDs(tasks) : OnCycle(tasks, id)})

\* C32 amended: the ids named by the cycle error are, in sorted order,
\* exactly the tasks that lie on a dependency cycle or depend, directly or
\* through other tasks, on a task that lies on one: these are the tasks left
\* with a non-zero in-degree.
C32_ErrorNamesTasksBehindCycle ==
    (Sorted /\ sortRes.err = "cycle detected") =>
        /\ sortRes.errIDs = SortedSeq({id \in IDs(tasks) : BehindCycle(tasks, id)})
        /\ \A id \in IDs(tasks) : OnCycle(tasks, id) => id \in Range(sortRes.errIDs)

\* a cycle error that names a task which is on no cycle, next to a task
\* that was layered and is not named
C32_Witness ==
    /\ Sorted /\ sortRes.err = "cycle detected"
    /\ \E id \in Range(sortRes.errIDs) : ~OnCycle(tasks, id)
    /\ \E id \in IDs(tasks) : id \notin Range(sortRes.errIDs)
    /\ Len(sortRes.errIDs) >= 2

\* C33: on deadline or signal the codex process is first sent SIGTERM;
\* SIGKILL is sent only by the timer that terminateProcess arms, that is
\* forceKillDelay after that SIGTERM, and only to a process that has not
\* exited; when the process exits by itself, with ctx never done, it is sent
\* no signal at all.
C33_KillOnlyAfterGracePeriod ==
    /\ \A k \in DOMAIN sigs :
         sigs[k].sig = "KILL" =>
            /\ sigs[k].by = "timer"
            /\ sigs[k].alive
            /\ \E j \in 1..(k - 1) : sigs[j].sig = "TERM"
    /\ sigs # <<>> => sigs[1].sig = "TERM"
    /\ ~CtxDone(ctxErr) => sigs = <<>>

\* C34: a log call racing with Close never panics and never stays blocked:
\* no producer panics on the queue, and once Close has closed done a
\* producer inside the select can return, its entry dropped.
C34_LogRacingCloseIsSafe ==
    \A p \in Producers :
        /\ lpc[p] # "panicked"
        /\ (lpc[p] = "select" /\ doneClosed) => ENABLED LogDrop(p)

\* C35: between timeout and interrupt the first cause wins: when the
\* supervisor of a started process returns after the deadline or a signal
\* arrived, its exit code is 124 exactly when the deadline arrived first and
\* 130 exactly when the signal arrived first, whether or not the other cause
\* arrived later; when neither arrived the result is neither the timeout
\* nor the cancellation.
C35_FirstCauseWins ==
    SupReturned =>
        /\ causes # <<>> =>
              /\ result.ExitCode = 124 <=> causes[1] = "deadline"
              /\ result.ExitCode = 130 <=> causes[1] = "signal"
        /\ causes = <<>> =>
              result.Error \notin {"codex execution timeout",
                                   "execution cancelled"}

\* the signal arrived while the process was running, the deadline passed
\* later, during the termination, and the supervisor returned 130
C35_Witness ==
    /\ SupReturned
    /\ causes = <<"signal", "deadline">>
    /\ termSent
    /\ result.ExitCode = 130

(***************************************************************************)
(* The results of both producers of TaskResult: the batch executor and    *)
(* the supervisor of one process.                                          *)
(***************************************************************************)
ResultsInit == Init \/ SupInit

ResultsNext == Next \/ SupNext

SpecResults == ResultsInit /\ [][ResultsNext]_vars

\* C36: every TaskResult, returned by the supervisor or made by the executor
\* for a skipped or panicked task, has exit code 0 exactly when its error is
\* empty, and has a message when its exit code is 0; hence every result the
\* report counts as failed has a non-zero exit code, and the exit code of a
\* batch with such a result is not 0.
C36_ExitCodeZeroIffNoError ==
    /\ spc = "done" =>
          /\ result.ExitCode = 0 <=> result.Error = ""
          /\ result.ExitCode = 0 => result.Message # <<>>
    /\ \A k \in DOMAIN results :
          /\ results[k].ExitCode = 0 <=> results[k].Error = ""
          /\ results[k].ExitCode = 0 => results[k].Message # ""
          /\ ~Succeeded(results[k]) => results[k].ExitCode # 0
    /\ Exited =>
          ((\E k \in DOMAIN results : ~Succeeded(results[k])) => exitCode # 0)

\* a batch has exited with a success, the result of a panic and a skip in
\* its report
C36_Witness ==
    /\ Exited
    /\ \E i, j, k \in DOMAIN results :
          /\ Succeeded(results[i])
          /\ results[j] = PanicResult(results[j].TaskID)
          /\ IsSkip(results[k])
    /\ exitCode # 0

\* the report with the results at places k and k + 1 exchanged
Swap(rs, k) ==
    [i \in DOMAIN rs |->
        IF i = k THEN rs[k + 1] ELSE IF i = k + 1 THEN rs[k] ELSE rs[i]]

\* the places k at which the report holds, one after the other, the results
\* of two tasks of one layer that both ran: their workers ran at the same
\* time, and the run in which they finish in the other order differs from
\* this one in the order of these two results only
FinishedTogether ==
    {k \in 1..(Len(results) - 1) :
        /\ ~IsSkip(results[k]) /\ ~IsSkip(results[k + 1])
        /\ LayerOf(sortRes.layers, results[k].TaskID)
             = LayerOf(sortRes.layers, results[k + 1].TaskID)}

\* C37 as stated: the batch exit code depends on the exit codes of the
\* tasks alone: the run in which two workers of a layer finish in the other
\* order, every task with the same exit code, exits with the same code.
C37_ExitCodeIgnoresFinishOrder ==
    Exited =>
        \A k \in FinishedTogether :
            ExitCodeLoop(0, Swap(results, k)) = exitCode

\* C37, amended: whether the batch exit code is 0 depends on the exit codes
\* of the tasks alone; its value can differ between two runs that differ in
\* the finishing order of two workers of a layer only when these two tasks
\* have different non-zero exit codes and no later result has a non-zero
\* exit code.
C37_ExitCodeUpToLastFailures ==
    Exited =>
        \A k \in FinishedTogether :
            LET other == ExitCodeLoop(0, Swap(results, k))
            IN  /\ (other = 0) <=> (exitCode = 0)
                /\ other # exitCode =>
                      /\ results[k].ExitCode # 0
                      /\ results[k + 1].ExitCode # 0
                      /\ results[k].ExitCode # results[k + 1].ExitCode
                      /\ \A j \in (k + 2)..Len(results) :
                            results[j].ExitCode = 0

\* two tasks of one layer failed with different exit codes, the later of
\* them is the last failure of the report, and the other finishing order
\* gives the other exit code
C37_Witness ==
    /\ Exited
    /\ \E k \in FinishedTogether :
          /\ results[k].ExitCode # 0
          /\ results[k + 1].ExitCode = exitCode
          /\ ExitCodeLoop(0, Swap(results, k)) = results[k].ExitCode
          /\ results[k].ExitCode # exitCode

(***************************************************************************)
(* Batch mode with a signal: SIGINT or SIGTERM reaches the wrapper while   *)
(* invocations of runCodexTaskWithContext are in progress.                 *)
(***************************************************************************)
\* main.go:848-850: the result of an invocation whose ctx was cancelled
CancelledResult(id) ==
    TaskResult(id, 130, "", "", "execution cancelled", <<>>)

\* SIGINT or SIGTERM is delivered while a layer runs: the contexts that
\* signal.NotifyContext made (main.go:740) for the invocations in progress
\* are cancelled; executeConcurrent itself listens to no signal
Interrupt ==
    /\ pc \in {"launch", "wait"}
    /\ interrupt = NoInterrupt
    /\ \E id \in DOMAIN worker : worker[id] = "running"
    /\ interrupt' = [at |-> li,
                     hit |-> {id \in DOMAIN worker : worker[id] = "running"}]
    /\ UNCHANGED <<tasks, sortRes, pc, li, ti, ci, executed, results, failed,
                   resultsCh, worker, spawns, exitCode>>
    /\ UNCHANGED <<cfgErr, stdout, panicked>>
    /\ UNCHANGED logVars
    /\ UNCHANGED supVars

\* main.go:263,269 and 842-851: an invocation whose ctx was cancelled
\* returns exit code 130, its result is sent, wg.Done()
WorkerInterrupted(id) ==
    /\ worker[id] = "running"
    /\ id \in interrupt.hit
    /\ Len(resultsCh) < TotalTasks(sortRes.layers)
    /\ resultsCh' = Append(resultsCh, CancelledResult(id))
    /\ worker' = [worker EXCEPT ![id] = "done"]
    /\ UNCHANGED <<tasks, sortRes, pc, li, ti, ci, executed, results, failed,
                   spawns, exitCode>>
    /\ UNCHANGED <<cfgErr, stdout, panicked, interrupt>>
    /\ UNCHANGED logVars
    /\ UNCHANGED supVars

InterruptNext ==
    \/ Next
    \/ Interrupt
    \/ \E id \in DOMAIN worker : WorkerInterrupted(id)

SpecInterrupt == Init /\ [][InterruptNext]_vars

\* the invocations the signal cancelled have returned nothing but the
\* cancellation
CancelledReturn130 ==
    /\ \A k \in DOMAIN results :
          results[k].TaskID \in interrupt.hit => results[k].ExitCode = 130
    /\ \A k \in DOMAIN resultsCh :
          resultsCh[k].TaskID \in interrupt.hit => resultsCh[k].ExitCode = 130

\* C38: once SIGINT or SIGTERM has been delivered while a layer is running,
\* no invocation of a task of a later layer is started: the interrupt stops
\* the whole batch (checked on the runs in which every invocation that was
\* in progress when the signal came returns the cancellation, exit code 130).
C38_InterruptStopsBatch ==
    (interrupt.at # 0 /\ CancelledReturn130) =>
        \A id \in DOMAIN spawns :
            LayerOf(sortRes.layers, id) > interrupt.at => spawns[id] = 0

(***************************************************************************)
(* The supervisor under fairness: every goroutine that can take a step     *)
(* eventually takes it (the supervisor, the waiter, the parser, the        *)
(* watcher of exec.CommandContext), the timers fire, and SIGKILL ends the  *)
(* process it was sent to. Nothing is assumed about the codex process      *)
(* itself: it need not write, exit, or react to SIGTERM.                   *)
(***************************************************************************)
\* the kernel ends a running process that was sent SIGKILL
KillTakesEffect ==
    /\ \E k \in DOMAIN sigs : sigs[k].sig = "KILL"
    /\ ChildKilled

\* a step of the supervisor, of the waiter, of the parser, of the watcher,
\* of a timer, or of the kernel ending a killed process
SupProgress ==
    \/ SupStart \/ DeadlineFires \/ ExecKill \/ ForceKill \/ KillTakesEffect
    \/ WaitReturn \/ SupSelectWait \/ SupSelectCtx \/ SupTerminated
    \/ ScanLine \/ ScanEOF \/ ScanReadError \/ SupReturn

\* as long as one of these steps can be taken, one of them eventually is
SupFairness == WF_vars(SupProgress)

SpecSupFair == SupInit /\ [][SupNext]_vars /\ SupFairness

MaxChunk == 3

\* the most bytes written in all
MaxWritten == 5

TailBytes == {"x", "y"}

\* the inputs of Write: the byte slices of length 0..MaxChunk
Chunks == UNION {[1..n -> TailBytes] : n \in 0..MaxChunk}

\* an overflow that is never cut off
Overflow_None(total, limit) == 0

\* overflow := total - b.limit
Overflow(total, limit) == total - limit

\* p[from:], b.data[from:]
SliceFrom(bytes, from) == SubSeq(bytes, from + 1, Len(bytes))

\* tailBuffer.Write: the buffer afterwards and the count returned
Write(b, p) ==
    IF b.limit <= 0 THEN [b |-> b, n |-> Len(p)]
    ELSE IF Len(p) >= b.limit
    THEN [b |-> [b EXCEPT !.data = SliceFrom(p, Len(p) - b.limit)],
          n |-> Len(p)]
    ELSE LET total == Len(b.data) + Len(p)
         IN  IF total <= b.limit
             THEN [b |-> [b EXCEPT !.data = b.data \o p], n |-> Len(p)]
             ELSE [b |-> [b EXCEPT !.data =
                            SliceFrom(b.data, Overflow(total, b.limit)) \o p],
                   n |-> Len(p)]

\* a tailBuffer of some limit, nothing written
TailInit ==
    /\ tasks = <<>>
    /\ sortRes = NotSorted
    /\ pc = "tail"
    /\ ExecIdle
    /\ LogIdle
    /\ spc = "none" /\ child = "none" /\ status = 0
    /\ stream = <<>> /\ ppos = 0 /\ parsed = NoParse /\ parseDone = FALSE
    /\ waitDone = FALSE /\ ctxErr = "" /\ firedRunning = FALSE
    /\ termSent = FALSE /\ result = NoResult
    /\ sigs = <<>> /\ killTimer = "none" /\ causes = <<>>
    /\ \E limit \in 0..MaxTailLimit :
          stderrBuf = [limit |-> limit, data |-> <<>>]
    /\ stderrLog = NoWrites

\* the stderr of the codex process is copied to stderrBuf: one Write
TailWrite(p) ==
    /\ pc = "tail"
    /\ Len(stderrLog.all) + Len(p) <= MaxWritten
    /\ LET w == Write(stderrBuf, p)
       IN  /\ stderrBuf' = w.b
           /\ stderrLog' = [all |-> stderrLog.all \o p, p |-> p, n |-> w.n]
    /\ UNCHANGED <<spc, child, status, stream, ppos, parsed, parseDone,
                   waitDone, ctxErr, firedRunning, termSent, sigs, killTimer,
                   causes, result>>
    /\ UNCHANGED batchVars
    /\ UNCHANGED logVars

TailNext == \E p \in Chunks : TailWrite(p)

SpecTail == TailInit /\ [][TailNext]_vars

Min(a, b) == IF a <= b THEN a ELSE b

\* the last k bytes of a byte sequence
LastBytes(bytes, k) == SubSeq(bytes, Len(bytes) - k + 1, Len(bytes))

\* C40: after any sequence of writes the tail buffer holds exactly the last
\* min(limit, total bytes written) bytes of the concatenation of all the
\* writes, so it is never longer than the limit, and every Write returns
\* the full length of its input.
C40_TailHoldsLastBytes ==
    /\ stderrBuf.data =
          LastBytes(stderrLog.all, Min(stderrBuf.limit, Len(stderrLog.all)))
    /\ Len(stderrBuf.data) <= stderrBuf.limit
    /\ stderrLog.n # -1 => stderrLog.n = Len(stderrLog.p)

\* more bytes than the limit were written, the latest Write with an input
\* shorter than the limit onto a buffer that it made overflow: the buffer
\* holds bytes of the last two writes
C40_Witness ==
    /\ pc = "tail"
    /\ stderrBuf.limit = MaxTailLimit
    /\ Len(stderrLog.all) > stderrBuf.limit + 1
    /\ Len(stderrLog.p) \in 1..(stderrBuf.limit - 1)
    /\ Len(stderrBuf.data) = stderrBuf.limit
    /\ stderrBuf.data[1] # stderrBuf.data[stderrBuf.limit]

====
